-------------------------- MODULE CardPaymentProofs --------------------------
(* Theorems about CardPayment, for every set of workers and sessions.      *)
EXTENDS CardPayment, TLAPS

(* A worker at one of these steps has a session in hand. *)
SessionSteps ==
  {"fail", "apply", "export", "refund", "refunded", "notRefunded", "retrieve", "payState",
   "record", "window"}

JobMakesSense(j) ==
  /\ j.at = "claim" => j.ev \in Events
  /\ j.at \in SessionSteps => j.s \in Sessions
  /\ j.at \in {"peek", "payState", "cancel"} => j.by \in {"USER", "SYSTEM"}

JobsMakeSense == \A w \in Workers : JobMakesSense(job[w])

TypeInv == TypeOK /\ JobsMakeSense

(* TypeOK is inductive together with: no call reaches Stripe or the order  *)
(* row without the session it is about.                                    *)
LEMMA TypeInvariant == Spec => []TypeInv
(* A worker without a job has a sensible one.                               *)
<1>IdleMakesSense. Idle \in Jobs /\ JobMakesSense(Idle)
  BY DEF Doing, Idle, Jobs, Labels, JobMakesSense, SessionSteps
(* A step that gives one worker a sensible job keeps all jobs sensible.    *)
<1>OneJob.
    ASSUME TypeInv, NEW w \in Workers, NEW j \in Jobs, JobMakesSense(j),
           job' = [job EXCEPT ![w] = j]
    PROVE  job' \in [Workers -> Jobs] /\ JobsMakeSense'
  <2> USE <1>OneJob
  <2>1. job \in [Workers -> Jobs] /\ \A v \in Workers : JobMakesSense(job[v])
    BY DEF TypeInv, TypeOK, JobsMakeSense
  <2>2. job' \in [Workers -> Jobs] /\ \A v \in Workers : job'[v] = IF v = w THEN j ELSE job[v]
    BY <2>1
  <2>3. \A v \in Workers : JobMakesSense(job'[v])
    BY <2>1, <2>2
  <2> QED
    BY <2>2, <2>3 DEF JobsMakeSense, JobMakesSense
<1>1. Init => TypeInv
  <2> SUFFICES ASSUME Init PROVE TypeInv
    OBVIOUS
  <2>1. PICK w \in Workers :
          job = [v \in Workers |->
                   IF v = w THEN Doing("mint", NoSession, "CHECKOUT") ELSE Idle]
    BY DEF Init
  <2>2. Doing("mint", NoSession, "CHECKOUT") \in Jobs
    BY DEF Doing, Idle, Jobs, Labels
  <2>3. JobMakesSense(Doing("mint", NoSession, "CHECKOUT"))
    BY DEF Doing, Idle, JobMakesSense, SessionSteps
  <2>4. job \in [Workers -> Jobs] /\ JobsMakeSense
    BY <2>1, <2>2, <2>3, <1>IdleMakesSense DEF JobsMakeSense
  <2>5. /\ status = "AWAITING_PAYMENT" /\ pay = "none" /\ sid = NoSession /\ source = "NONE"
        /\ overdue = FALSE /\ released = FALSE /\ exports = 0
        /\ session = [s \in Sessions |-> "unused"] /\ events = {} /\ claimed = {}
    BY DEF Init
  <2>6. session \in [Sessions -> SessionStates]
    BY <2>5 DEF SessionStates
  <2>7. events \subseteq Events /\ claimed \subseteq Events
    BY <2>5
  <2>8. /\ status \in {"AWAITING_PAYMENT", "PROCESSING", "CANCELLED"}
        /\ source \in {"NONE", "USER", "SYSTEM"} /\ pay \in PayStates
        /\ sid \in Sessions \cup {NoSession}
        /\ exports \in 0..2
    BY <2>5 DEF PayStates
  <2>9. overdue \in BOOLEAN /\ released \in BOOLEAN
    BY <2>5, Zenon
  <2> QED
    BY <2>4, <2>6, <2>7, <2>8, <2>9 DEF TypeInv, TypeOK
<1>2. TypeInv /\ [Next]_vars => TypeInv'
  <2> SUFFICES ASSUME TypeInv, [Next]_vars PROVE TypeInv'
    OBVIOUS
  <2>j. \A w \in Workers : job[w] \in Jobs /\ JobMakesSense(job[w])
    BY DEF TypeInv, TypeOK, JobsMakeSense
  <2>r. ASSUME NEW w \in Workers, Return(w)
        PROVE  events' \subseteq Events /\ job' \in [Workers -> Jobs] /\ JobsMakeSense'
    BY <2>r, <1>IdleMakesSense, <1>OneJob DEF Return, TypeInv, TypeOK
  <2>g. ASSUME NEW w \in Workers, NEW label \in Labels, NEW s \in Sessions \cup {NoSession},
               label # "claim", label \in SessionSteps => s \in Sessions,
               label \in {"peek", "payState", "cancel"} => job[w].by \in {"USER", "SYSTEM"},
               job' = [job EXCEPT ![w] = [job[w] EXCEPT !.at = label, !.s = s]]
        PROVE  job' \in [Workers -> Jobs] /\ JobsMakeSense'
    <3>1. [job[w] EXCEPT !.at = label, !.s = s] \in Jobs
      BY <2>j DEF Jobs
    <3>2. JobMakesSense([job[w] EXCEPT !.at = label, !.s = s])
      BY <2>j, <2>g DEF Jobs, JobMakesSense
    <3> QED BY <2>g, <3>1, <3>2, <1>OneJob
  <2> USE DEF TypeInv, TypeOK
  <2>1. ASSUME NEW w \in Workers, NEW e \in events, Deliver(w, e) PROVE TypeInv'
    <3>1. [Idle EXCEPT !.at = "claim", !.ev = e] \in Jobs
      BY DEF Doing, Idle, Jobs, Labels
    <3>2. JobMakesSense([Idle EXCEPT !.at = "claim", !.ev = e])
      BY DEF Doing, Idle, JobMakesSense, SessionSteps
    <3> QED BY <2>1, <3>1, <3>2, <1>OneJob DEF Deliver, orderVars
  <2>2. ASSUME NEW w \in Workers, Claim(w) PROVE TypeInv'
    <3>1. job[w].ev \in Events /\ job[w].ev.session \in Sessions
      BY <2>2, <2>j DEF Claim, At, Events, JobMakesSense
    <3>2. CASE Return(w)
      BY <2>2, <3>1, <3>2, <2>r DEF Claim, orderVars
    <3>3. CASE ~ Return(w)
      <4> DEFINE next == IF job[w].ev.type \in {"completed", "succeeded"} THEN "apply" ELSE "fail"
      <4>1. job' = [job EXCEPT ![w] = [job[w] EXCEPT !.at = next, !.s = job[w].ev.session]]
        BY <2>2, <3>3, <2>j DEF Claim, GotoWith
      <4>2. next \in {"apply", "fail"}
        OBVIOUS
      <4>3. job' \in [Workers -> Jobs] /\ JobsMakeSense'
        <5> HIDE DEF next
        <5> QED BY <4>1, <4>2, <3>1, <2>g DEF Labels, SessionSteps
      <4> QED BY <2>2, <3>1, <3>3, <4>3 DEF Claim, orderVars
    <3> QED BY <3>2, <3>3
  <2>3. ASSUME NEW w \in Workers, MarkFailed(w) PROVE TypeInv'
    BY <2>3, <2>j, <2>r DEF MarkFailed, At, JobMakesSense, SessionSteps, PayStates
  <2>4. ASSUME NEW w \in Workers, ApplySuccess(w) PROVE TypeInv'
    <3>1. job[w].s \in Sessions /\ At(w, "apply")
      BY <2>4, <2>j DEF ApplySuccess, At, JobMakesSense, SessionSteps
    <3>2. CASE Return(w)
      BY <2>4, <3>1, <3>2, <2>r DEF ApplySuccess, PayStates
    <3>3. ASSUME NEW label \in {"refund", "export"}, Goto(w, label)
          PROVE  job' \in [Workers -> Jobs] /\ JobsMakeSense'
      <4>1. job' = [job EXCEPT ![w] = [job[w] EXCEPT !.at = label, !.s = job[w].s]]
        BY <3>3, <2>j DEF Goto, Jobs
      <4> QED BY <4>1, <3>1, <2>g DEF Labels, SessionSteps
    <3>4. CASE ~ Return(w)
      BY <2>4, <3>1, <3>3, <3>4 DEF ApplySuccess, PayStates
    <3> QED BY <3>2, <3>4
  <2>5. ASSUME NEW w \in Workers, Export(w) PROVE TypeInv'
    BY <2>5, <2>r DEF Export
  <2>k. ASSUME NEW w \in Workers, NEW label \in Labels \ {"claim", "peek", "payState", "cancel"},
               label \in SessionSteps => job[w].s \in Sessions, Goto(w, label)
        PROVE  job' \in [Workers -> Jobs] /\ JobsMakeSense'
    <3>1. job' = [job EXCEPT ![w] = [job[w] EXCEPT !.at = label, !.s = job[w].s]]
      BY <2>k, <2>j DEF Goto, Jobs
    <3> QED BY <3>1, <2>k, <2>g, <2>j DEF Jobs
  <2>6. ASSUME NEW w \in Workers, Refund(w) PROVE TypeInv'
    <3>1. job[w].s \in Sessions
      BY <2>6, <2>j DEF Refund, At, JobMakesSense, SessionSteps
    <3>2. job' \in [Workers -> Jobs] /\ JobsMakeSense'
      BY <2>6, <3>1, <2>k DEF Refund, Labels, SessionSteps
    <3> QED BY <2>6, <3>2 DEF Refund, orderVars, SessionStates, Complete
  <2>7. ASSUME NEW w \in Workers, WriteRefund(w) PROVE TypeInv'
    BY <2>7, <2>j, <2>r DEF WriteRefund, At, JobMakesSense, SessionSteps, PayStates
  <2>8. ASSUME NEW w \in Workers, StartSync(w) PROVE TypeInv'
    <3>1. Doing("retrieve", sid, "USER") \in Jobs
      BY DEF Doing, Idle, Jobs, Labels
    <3>2. JobMakesSense(Doing("retrieve", sid, "USER"))
      BY <2>8 DEF StartSync, Doing, JobMakesSense, SessionSteps
    <3> QED BY <2>8, <3>1, <3>2, <1>OneJob DEF StartSync, Start, orderVars
  <2>i. ASSUME NEW w \in Workers, job' = [job EXCEPT ![w] = Idle]
        PROVE  job' \in [Workers -> Jobs] /\ JobsMakeSense'
    BY <2>i, <1>IdleMakesSense, <1>OneJob
  <2>9. ASSUME NEW w \in Workers, Retrieve(w) PROVE TypeInv'
    <3>1. job[w].s \in Sessions
      BY <2>9, <2>j DEF Retrieve, At, JobMakesSense, SessionSteps
    <3>2. job' \in [Workers -> Jobs] /\ JobsMakeSense'
      BY <2>9, <3>1, <2>k, <2>i DEF Retrieve, Labels, SessionSteps
    <3> QED BY <2>9, <3>2 DEF Retrieve, orderVars
  <2>10. ASSUME NEW w \in Workers, NEW label \in {"peek", "expireOld"},
                NEW by \in {"USER", "SYSTEM"}, NEW s \in Sessions \cup {NoSession},
                job' = [job EXCEPT ![w] = Doing(label, s, by)]
         PROVE  job' \in [Workers -> Jobs] /\ JobsMakeSense'
    <3>1. Doing(label, s, by) \in Jobs
      BY DEF Doing, Idle, Jobs, Labels
    <3>2. JobMakesSense(Doing(label, s, by))
      BY DEF Doing, Idle, JobMakesSense, SessionSteps
    <3> QED BY <2>10, <3>1, <3>2, <1>OneJob
  <2>11. ASSUME NEW w \in Workers, StartCancel(w) \/ StartExpire(w) \/ StartRetry(w)
         PROVE  TypeInv'
    <3>1. job' \in [Workers -> Jobs] /\ JobsMakeSense'
      <4>1. \E label \in {"peek", "expireOld"}, by \in {"USER", "SYSTEM"},
               s \in Sessions \cup {NoSession} :
              job' = [job EXCEPT ![w] = Doing(label, s, by)]
        BY <2>11 DEF StartCancel, StartExpire, StartRetry, Start
      <4> QED BY <4>1, <2>10
    <3> QED BY <2>11, <3>1 DEF StartCancel, StartExpire, StartRetry, orderVars
  <2>12. ASSUME NEW w \in Workers, Peek(w) PROVE TypeInv'
    <3> DEFINE next == IF sid = NoSession THEN "cancel" ELSE "payState"
    <3>1. job' = [job EXCEPT ![w] = [job[w] EXCEPT !.at = next, !.s = sid]]
      BY <2>12, <2>j DEF Peek, GotoWith
    <3>2. next \in {"cancel", "payState"} /\ (next \in SessionSteps => sid \in Sessions)
      BY DEF SessionSteps
    <3>3. job[w].by \in {"USER", "SYSTEM"}
      BY <2>12, <2>j DEF Peek, At, JobMakesSense
    <3>4. job' \in [Workers -> Jobs] /\ JobsMakeSense'
      <4>1. next \in Labels /\ next # "claim" /\ sid \in Sessions \cup {NoSession}
        BY DEF Labels
      <4> HIDE DEF next, TypeInv, TypeOK
      <4> QED BY <3>1, <3>2, <3>3, <4>1, <2>g
    <3> QED BY <2>12, <3>4 DEF Peek, orderVars
  <2>13. ASSUME NEW w \in Workers, PayState(w) PROVE TypeInv'
    <3>1. job[w].s \in Sessions /\ job[w].by \in {"USER", "SYSTEM"}
      BY <2>13, <2>j DEF PayState, At, JobMakesSense, SessionSteps
    <3>2. ASSUME NEW label \in {"apply", "cancel"}, Goto(w, label)
          PROVE  job' \in [Workers -> Jobs] /\ JobsMakeSense'
      <4>1. job' = [job EXCEPT ![w] = [job[w] EXCEPT !.at = label, !.s = job[w].s]]
        BY <3>2, <2>j DEF Goto, Jobs
      <4> QED BY <4>1, <3>1, <2>g DEF Labels
    <3>3. job' \in [Workers -> Jobs] /\ JobsMakeSense'
      BY <2>13, <3>2 DEF PayState
    <3> QED BY <2>13, <3>3 DEF PayState, orderVars
  <2>14. ASSUME NEW w \in Workers, Cancel(w) PROVE TypeInv'
    <3>1. job[w].by \in {"USER", "SYSTEM"}
      BY <2>14, <2>j DEF Cancel, At, JobMakesSense
    <3>2. CASE job' = [job EXCEPT ![w] = Idle]
      BY <2>14, <3>1, <3>2, <2>i DEF Cancel
    <3>3. CASE GotoWith(w, "close", sid)
      <4>1. job' = [job EXCEPT ![w] = [job[w] EXCEPT !.at = "close", !.s = sid]]
        BY <3>3, <2>j DEF GotoWith
      <4>2. /\ "close" \in Labels /\ "close" \notin SessionSteps
            /\ sid \in Sessions \cup {NoSession}
        BY DEF Labels, SessionSteps
      <4>3. job' \in [Workers -> Jobs] /\ JobsMakeSense'
        <5> HIDE DEF TypeInv, TypeOK
        <5> QED BY <4>1, <4>2, <2>g
      <4> QED BY <2>14, <3>1, <4>3 DEF Cancel
    <3> QED BY <2>14, <3>2, <3>3 DEF Cancel
  <2>15. ASSUME NEW w \in Workers, Close(w) \/ ExpireOld(w) PROVE TypeInv'
    <3>1. PICK next \in {"release", "mint"} : ExpireIfOpen(w, next)
      BY <2>15 DEF Close, ExpireOld
    <3>2. job' \in [Workers -> Jobs] /\ JobsMakeSense'
      BY <3>1, <2>k DEF ExpireIfOpen, Labels, SessionSteps
    <3>3. session' \in [Sessions -> SessionStates] /\ events' \subseteq Events
      <4>1. CASE job[w].s # NoSession /\ CloseSession(job[w].s)
        <5>1. job[w].s \in Sessions
          BY <4>1, <2>j DEF Jobs
        <5> QED BY <4>1, <5>1 DEF CloseSession, Event, Events, EventTypes, SessionStates
      <4>2. CASE UNCHANGED <<session, events>>
        BY <4>2
      <4> QED BY <3>1, <4>1, <4>2 DEF ExpireIfOpen
    <3> QED BY <3>1, <3>2, <3>3 DEF ExpireIfOpen, orderVars
  <2>16. ASSUME NEW w \in Workers, Release(w) \/ Window(w) \/ Crash(w) PROVE TypeInv'
    BY <2>16, <2>i DEF Release, Window, Crash, orderVars
  <2>17. ASSUME NEW w \in Workers, Mint(w) PROVE TypeInv'
    <3>1. CASE job' = [job EXCEPT ![w] = Idle] /\ UNCHANGED session
      BY <2>17, <3>1, <2>i DEF Mint, orderVars
    <3>2. ASSUME NEW s \in Sessions, session' = [session EXCEPT ![s] = "minted"],
                 GotoWith(w, "record", s)
          PROVE  TypeInv'
      <4>1. job' = [job EXCEPT ![w] = [job[w] EXCEPT !.at = "record", !.s = s]]
        BY <3>2, <2>j DEF GotoWith
      <4>2. job' \in [Workers -> Jobs] /\ JobsMakeSense'
        BY <4>1, <2>g DEF Labels, SessionSteps
      <4> QED BY <2>17, <3>2, <4>2 DEF Mint, orderVars, SessionStates
    <3> QED BY <2>17, <3>1, <3>2 DEF Mint
  <2>18. ASSUME NEW w \in Workers, Record(w) PROVE TypeInv'
    <3>1. job[w].s \in Sessions
      BY <2>18, <2>j DEF Record, At, JobMakesSense, SessionSteps
    <3>2. job' \in [Workers -> Jobs] /\ JobsMakeSense'
      BY <2>18, <3>1, <2>i, <2>k DEF Record, Labels
    <3> QED BY <2>18, <3>1, <3>2 DEF Record, PayStates, SessionStates
  <2>19. ASSUME NEW s \in Sessions, Pay(s) \/ PayAsync(s) \/ Settle(s) \/ SessionExpires(s)
         PROVE  TypeInv'
    <3>1. session' \in [Sessions -> SessionStates] /\ events' \subseteq Events
      BY <2>19 DEF Pay, PayAsync, Settle, SessionExpires, CloseSession, Event, Events, EventTypes,
                   SessionStates, Complete
    <3>2. UNCHANGED <<orderVars, claimed, job>>
      BY <2>19 DEF Pay, PayAsync, Settle, SessionExpires
    <3> QED BY <3>1, <3>2 DEF orderVars, JobsMakeSense, JobMakesSense
  <2>20. CASE BecomesOverdue \/ UNCHANGED vars
    BY <2>20 DEF BecomesOverdue, vars, orderVars, JobsMakeSense, JobMakesSense
  <2> HIDE DEF TypeInv
  <2> QED
    BY <2>1, <2>2, <2>3, <2>4, <2>5, <2>6, <2>7, <2>8, <2>9, <2>11, <2>12, <2>13, <2>14, <2>15,
       <2>16, <2>17, <2>18, <2>19, <2>20
    DEF Next, Begin, Continue
<1> QED
  BY <1>1, <1>2, PTL DEF Spec

(* Every variable keeps its type, for any number of workers and sessions   *)
(* and under every fault.                                                  *)
THEOREM TypeCorrect == Spec => []TypeOK
<1>1. TypeInv => TypeOK
  BY DEF TypeInv
<1> QED
  BY <1>1, TypeInvariant, PTL

-----------------------------------------------------------------------------
(* What a worker on the way to or from a refund or a release relies on:    *)
(* the order was seen cancelled, which is final, and Stripe confirmed the  *)
(* refund before it is recorded.                                           *)
JobIsBacked(j) ==
  /\ j.at \in {"refund", "refunded", "notRefunded", "close", "release"} => status = "CANCELLED"
  /\ j.at = "refunded" => session[j.s] = "refunded"

JobsAreBacked == \A w \in Workers : JobIsBacked(job[w])

MoneyInv == RefundMeansCancelled /\ RefundRecordIsTrue /\ JobsAreBacked

(* Money goes back only for an order that will not be fulfilled, and only  *)
(* money that went back is recorded so.                                    *)
THEOREM MoneyIsSafe == Spec => []MoneyInv
(* The jobs stay backed when one worker moves on and neither a             *)
(* cancellation nor a refund is undone.                                    *)
<1>BackedStep.
    ASSUME TypeInv, MoneyInv, NEW w \in Workers,
           job' \in [Workers -> Jobs], \A v \in Workers : v # w => job'[v] = job[v],
           status = "CANCELLED" => status' = "CANCELLED",
           \A s \in Sessions : session[s] = "refunded" => session'[s] = "refunded",
           JobIsBacked(job[w])'
    PROVE  JobsAreBacked'
  <2> USE <1>BackedStep
  <2> SUFFICES ASSUME NEW v \in Workers PROVE JobIsBacked(job[v])'
    BY DEF JobsAreBacked
  <2>1. CASE v = w
    BY <2>1
  <2>2. CASE v # w
    <3>1. JobIsBacked(job[v]) /\ job'[v] = job[v]
      BY <2>2 DEF MoneyInv, JobsAreBacked
    <3>2. job[v].at = "refunded" => job[v].s \in Sessions
      BY DEF TypeInv, JobsMakeSense, JobMakesSense, SessionSteps
    <3> QED BY <3>1, <3>2 DEF JobIsBacked
  <2> QED BY <2>1, <2>2
<1>1. Init => MoneyInv
  BY DEF Init, MoneyInv, RefundMeansCancelled, RefundRecordIsTrue, JobsAreBacked, JobIsBacked,
         Doing, Idle
<1>2. TypeInv /\ TypeInv' /\ MoneyInv /\ [Next]_vars => MoneyInv'
  <2> SUFFICES ASSUME TypeInv, TypeInv', MoneyInv, [Next]_vars PROVE MoneyInv'
    OBVIOUS
  <2>j. ASSUME NEW w \in Workers
        PROVE  job[w] \in Jobs /\ JobMakesSense(job[w]) /\ JobIsBacked(job[w])
    BY DEF TypeInv, TypeOK, JobsMakeSense, MoneyInv, JobsAreBacked
  <2>i. ASSUME NEW w \in Workers, job' = [job EXCEPT ![w] = Idle],
               status = "CANCELLED" => status' = "CANCELLED",
               \A s \in Sessions : session[s] = "refunded" => session'[s] = "refunded"
        PROVE  JobsAreBacked'
    <3>1. job'[w] = Idle /\ \A v \in Workers : v # w => job'[v] = job[v]
      BY <2>i DEF TypeInv, TypeOK
    <3>2. JobIsBacked(job[w])'
      BY <3>1 DEF JobIsBacked, Idle, Doing
    <3> QED BY <2>i, <3>1, <3>2, <1>BackedStep DEF TypeInv, TypeOK
  <2>g. ASSUME NEW w \in Workers, NEW label, NEW s,
               job' = [job EXCEPT ![w].at = label, ![w].s = s],
               label \in {"refund", "refunded", "notRefunded", "close", "release"}
                 => status' = "CANCELLED",
               label = "refunded" => session'[s] = "refunded",
               status = "CANCELLED" => status' = "CANCELLED",
               \A x \in Sessions : session[x] = "refunded" => session'[x] = "refunded"
        PROVE  JobsAreBacked'
    <3>1. /\ job'[w].at = label /\ job'[w].s = s
          /\ \A v \in Workers : v # w => job'[v] = job[v]
      BY <2>g, <2>j DEF TypeInv, TypeOK, Jobs
    <3>2. JobIsBacked(job[w])'
      BY <2>g, <3>1 DEF JobIsBacked
    <3> QED BY <2>g, <3>1, <3>2, <1>BackedStep DEF TypeInv, TypeOK
  <2>k. ASSUME NEW w \in Workers, NEW label, Goto(w, label),
               label \in {"refund", "refunded", "notRefunded", "close", "release"}
                 => status' = "CANCELLED",
               label = "refunded" => session'[job[w].s] = "refunded",
               status = "CANCELLED" => status' = "CANCELLED",
               \A x \in Sessions : session[x] = "refunded" => session'[x] = "refunded"
        PROVE  JobsAreBacked'
    <3>1. job' = [job EXCEPT ![w].at = label, ![w].s = job[w].s]
      BY <2>k, <2>j DEF Goto, Jobs, TypeInv, TypeOK
    <3> HIDE DEF JobsAreBacked
    <3> QED BY <2>k, <3>1, <2>g
  <2> USE DEF MoneyInv, RefundMeansCancelled, RefundRecordIsTrue
  <2>1. ASSUME NEW w \in Workers, Begin(w) PROVE MoneyInv'
    <3>1. PICK label \in {"retrieve", "peek", "expireOld", "claim"} :
            /\ job'[w].at = label
            /\ \A v \in Workers : v # w => job'[v] = job[v]
      <4>1. CASE \E e \in events : Deliver(w, e)
        <5>1. PICK e : job' = [job EXCEPT ![w] = [Idle EXCEPT !.at = "claim", !.ev = e]]
          BY <4>1 DEF Deliver
        <5>2. [Idle EXCEPT !.at = "claim", !.ev = e].at = "claim"
          BY DEF Idle, Doing
        <5> QED BY <5>1, <5>2 DEF TypeInv, TypeOK
      <4>2. CASE StartSync(w) \/ StartCancel(w) \/ StartExpire(w) \/ StartRetry(w)
        <5>1. \E label, s, by : label \in {"retrieve", "peek", "expireOld"} /\ Start(w, label, s, by)
          BY <4>2 DEF StartSync, StartCancel, StartExpire, StartRetry
        <5> QED BY <5>1 DEF Start, Doing, TypeInv, TypeOK
      <4> QED BY <2>1, <4>1, <4>2 DEF Begin
    <3>2. JobIsBacked(job[w])'
      BY <3>1 DEF JobIsBacked
    <3>3. UNCHANGED <<orderVars, session>>
      BY <2>1 DEF Begin, StartSync, StartCancel, StartExpire, StartRetry, Deliver
    <3> QED BY <3>1, <3>2, <3>3, <1>BackedStep DEF orderVars, TypeInv, TypeOK
  <2>2. ASSUME NEW w \in Workers, Claim(w) PROVE MoneyInv'
    <3>1. UNCHANGED <<orderVars, session>>
      BY <2>2 DEF Claim
    <3>2. CASE Return(w)
      BY <3>1, <3>2, <2>i DEF Return, orderVars
    <3>3. CASE ~ Return(w)
      BY <2>2, <3>1, <3>3, <2>g DEF Claim, GotoWith, orderVars
    <3> QED BY <3>2, <3>3
  <2>3. ASSUME NEW w \in Workers, MarkFailed(w) PROVE MoneyInv'
    BY <2>3, <2>i DEF MarkFailed, Return
  <2>4. ASSUME NEW w \in Workers, ApplySuccess(w) PROVE MoneyInv'
    <3>1. CASE status = "CANCELLED"
      BY <2>4, <3>1, <2>k DEF ApplySuccess
    <3>2. CASE status # "CANCELLED" /\ pay = "success"
      BY <2>4, <3>2, <2>i DEF ApplySuccess, Return
    <3>3. CASE status # "CANCELLED" /\ pay # "success"
      BY <2>4, <3>3, <2>k DEF ApplySuccess
    <3> QED BY <3>1, <3>2, <3>3
  <2>5. ASSUME NEW w \in Workers, Export(w) PROVE MoneyInv'
    BY <2>5, <2>i DEF Export, Return
  <2>6. ASSUME NEW w \in Workers, Refund(w) PROVE MoneyInv'
    <3>1. job[w].s \in Sessions /\ status = "CANCELLED"
      BY <2>6, <2>j DEF Refund, At, JobMakesSense, SessionSteps, JobIsBacked
    <3>2. session \in [Sessions -> SessionStates] /\ session' \in [Sessions -> SessionStates]
      BY DEF TypeInv, TypeOK
    <3>3. \A x \in Sessions : session[x] = "refunded" => session'[x] = "refunded"
      BY <2>6, <3>1, <3>2 DEF Refund
    <3>4. UNCHANGED orderVars
      BY <2>6 DEF Refund
    <3>5. JobsAreBacked'
      BY <2>6, <3>1, <3>2, <3>3, <3>4, <2>k DEF Refund, orderVars
    <3> QED BY <3>1, <3>3, <3>4, <3>5 DEF orderVars, TypeInv, TypeOK
  <2>7. ASSUME NEW w \in Workers, WriteRefund(w) PROVE MoneyInv'
    <3>1. job[w].s \in Sessions /\ (At(w, "refunded") => session[job[w].s] = "refunded")
      BY <2>7, <2>j DEF WriteRefund, At, JobMakesSense, SessionSteps, JobIsBacked
    <3>2. sid' = job[w].s /\ (pay' = "refunded" => At(w, "refunded"))
          /\ UNCHANGED <<status, released, session>> /\ job' = [job EXCEPT ![w] = Idle]
      BY <2>7 DEF WriteRefund, Return
    <3>3. sid' # NoSession
      BY <3>1, <3>2, ConstantsAssumption
    <3> QED BY <3>1, <3>2, <3>3, <2>i
  <2>8. ASSUME NEW w \in Workers, Retrieve(w) PROVE MoneyInv'
    BY <2>8, <2>i, <2>k DEF Retrieve, orderVars
  <2>9. ASSUME NEW w \in Workers, Peek(w) PROVE MoneyInv'
    <3> DEFINE next == IF sid = NoSession THEN "cancel" ELSE "payState"
    <3>1. job' = [job EXCEPT ![w].at = next, ![w].s = sid] /\ UNCHANGED <<orderVars, session>>
      BY <2>9 DEF Peek, GotoWith
    <3>2. next \in {"cancel", "payState"}
      OBVIOUS
    <3>3. JobsAreBacked'
      <4> HIDE DEF next
      <4> QED BY <3>1, <3>2, <2>g DEF orderVars
    <3> QED BY <3>1, <3>3 DEF orderVars
  <2>10. ASSUME NEW w \in Workers, PayState(w) PROVE MoneyInv'
    <3>1. PICK label \in {"apply", "cancel"} : Goto(w, label)
      BY <2>10 DEF PayState
    <3>2. UNCHANGED <<orderVars, session>>
      BY <2>10 DEF PayState
    <3>3. JobsAreBacked'
      BY <3>1, <3>2, <2>k DEF orderVars
    <3> QED BY <3>2, <3>3 DEF orderVars
  <2>11. ASSUME NEW w \in Workers, Cancel(w) PROVE MoneyInv'
    <3>1. UNCHANGED <<pay, sid, released, session>>
      BY <2>11 DEF Cancel
    <3>2. CASE job' = [job EXCEPT ![w] = Idle] /\ UNCHANGED status
      BY <3>1, <3>2, <2>i
    <3>3. CASE GotoWith(w, "close", sid) /\ status' = "CANCELLED"
      <4>1. JobsAreBacked'
        BY <3>1, <3>3, <2>g DEF GotoWith
      <4> QED BY <3>1, <3>3, <4>1
    <3> QED BY <2>11, <3>2, <3>3 DEF Cancel
  <2>12. ASSUME NEW w \in Workers, Close(w) \/ ExpireOld(w) PROVE MoneyInv'
    <3>1. PICK next \in {"release", "mint"} :
            ExpireIfOpen(w, next) /\ (next = "release" => status = "CANCELLED")
      BY <2>12, <2>j DEF Close, ExpireOld, At, JobIsBacked
    <3>2. \A x \in Sessions : session[x] = "refunded" <=> session'[x] = "refunded"
      BY <3>1, <2>j DEF ExpireIfOpen, CloseSession, Jobs, TypeInv, TypeOK
    <3>3. UNCHANGED orderVars
      BY <3>1 DEF ExpireIfOpen
    <3>4. JobsAreBacked'
      BY <3>1, <3>2, <3>3, <2>k DEF ExpireIfOpen, orderVars
    <3> QED BY <3>2, <3>3, <3>4 DEF orderVars, TypeInv, TypeOK
  <2>13. ASSUME NEW w \in Workers, Release(w) PROVE MoneyInv'
    <3>1. status = "CANCELLED"
      BY <2>13, <2>j DEF Release, At, JobIsBacked
    <3> QED BY <2>13, <3>1, <2>i DEF Release
  <2>14. ASSUME NEW w \in Workers, Mint(w) PROVE MoneyInv'
    <3>1. \A x \in Sessions : session[x] = "refunded" <=> session'[x] = "refunded"
      BY <2>14 DEF Mint, TypeInv, TypeOK
    <3>2. UNCHANGED orderVars
      BY <2>14 DEF Mint
    <3>3. JobsAreBacked'
      BY <2>14, <3>1, <3>2, <2>g, <2>i DEF Mint, GotoWith, orderVars
    <3> QED BY <3>1, <3>2, <3>3 DEF orderVars, TypeInv, TypeOK
  <2>15. ASSUME NEW w \in Workers, Record(w) PROVE MoneyInv'
    <3>1. \A x \in Sessions : session[x] = "refunded" <=> session'[x] = "refunded"
      BY <2>15, <2>j DEF Record, TypeInv, TypeOK
    <3>2. pay' = "created" /\ UNCHANGED <<status, released>>
      BY <2>15 DEF Record
    <3>3. JobsAreBacked'
      BY <2>15, <3>1, <3>2, <2>k, <2>i DEF Record
    <3> QED BY <3>1, <3>2, <3>3
  <2>16. ASSUME NEW w \in Workers, Window(w) \/ Crash(w) PROVE MoneyInv'
    BY <2>16, <2>i DEF Window, Crash, orderVars
  <2>17. ASSUME NEW s \in Sessions, Pay(s) \/ PayAsync(s) \/ Settle(s) \/ SessionExpires(s)
         PROVE  MoneyInv'
    <3>1. \A x \in Sessions : session[x] = "refunded" <=> session'[x] = "refunded"
      BY <2>17 DEF Pay, PayAsync, Settle, SessionExpires, CloseSession, TypeInv, TypeOK
    <3>2. UNCHANGED <<orderVars, job>>
      BY <2>17 DEF Pay, PayAsync, Settle, SessionExpires
    <3>3. \A w \in Workers : job[w].at = "refunded" => job[w].s \in Sessions
      BY <2>j DEF JobMakesSense, SessionSteps
    <3> QED BY <3>1, <3>2, <3>3 DEF orderVars, JobsAreBacked, JobIsBacked, TypeInv, TypeOK
  <2>18. CASE BecomesOverdue \/ UNCHANGED vars
    BY <2>18 DEF BecomesOverdue, vars, orderVars, JobsAreBacked, JobIsBacked
  <2> HIDE DEF MoneyInv
  <2> QED
    BY <2>1, <2>2, <2>3, <2>4, <2>5, <2>6, <2>7, <2>8, <2>9, <2>10, <2>11, <2>12, <2>13, <2>14,
       <2>15, <2>16, <2>17, <2>18
    DEF Next, Continue
<1> QED
  BY TypeInvariant, <1>1, <1>2, PTL DEF Spec

(* Money goes back only for an order that will not be fulfilled, and stock *)
(* only from such an order.                                                *)
THEOREM RefundsAreLate == Spec => []RefundMeansCancelled
  BY MoneyIsSafe, PTL DEF MoneyInv

(* The row says "refunded" only of a session that was refunded.            *)
THEOREM RefundRecordHolds == Spec => []RefundRecordIsTrue
  BY MoneyIsSafe, PTL DEF MoneyInv
-----------------------------------------------------------------------------
(* A session that completes has been paid, or will be if its method        *)
(* settles later; so has the session of every event that says so and of    *)
(* every worker about to apply a success.                                  *)
Charged(s) == session[s] \in Complete

SaysPaid(e) == e.type \in {"completed", "succeeded"}

JobIsPaid(j) ==
  /\ j.at = "claim" => (SaysPaid(j.ev) => Charged(j.ev.session))
  /\ j.at = "apply" => Charged(j.s)

JobsArePaid == \A w \in Workers : JobIsPaid(job[w])

EventsArePaid == \A e \in events : SaysPaid(e) => Charged(e.session)

PaidInv ==
  /\ \A s \in Sessions : session[s] \in {"processing", "declined"} => s \in Delayed
  /\ EventsArePaid
  /\ JobsArePaid
  /\ FulfilledMeansPaid

(* Goods leave only against money, paid or awaited from a delayed method;  *)
(* where no method settles later (Delayed = {}), against a paid session.   *)
THEOREM PaidBeforeProcessing == Spec => []FulfilledMeansPaid
<1>1. Init => PaidInv
  BY DEF Init, PaidInv, EventsArePaid, JobsArePaid, JobIsPaid, FulfilledMeansPaid, Doing, Idle
<1>2. TypeInv /\ TypeInv' /\ MoneyInv /\ PaidInv /\ [Next]_vars => PaidInv'
  <2> SUFFICES ASSUME TypeInv, TypeInv', MoneyInv, PaidInv, [Next]_vars PROVE PaidInv'
    OBVIOUS
  <2>j. ASSUME NEW w \in Workers
        PROVE  /\ job[w] \in Jobs /\ JobMakesSense(job[w]) /\ JobIsPaid(job[w])
               /\ JobIsBacked(job[w])
    BY DEF TypeInv, TypeOK, JobsMakeSense, PaidInv, JobsArePaid, MoneyInv, JobsAreBacked
  <2>e. \A e \in Events : e.session \in Sessions
    BY DEF Events
  (* A charge stays a charge. *)
  <2>a. ASSUME \A s \in Sessions : Charged(s) => Charged(s)',
               NEW w \in Workers, job' \in [Workers -> Jobs],
               \A v \in Workers : v # w => job'[v] = job[v], JobIsPaid(job[w])'
        PROVE  JobsArePaid'
    <3> SUFFICES ASSUME NEW v \in Workers PROVE JobIsPaid(job[v])'
      BY DEF JobsArePaid
    <3>1. CASE v = w
      BY <3>1, <2>a
    <3>2. CASE v # w
      <4>1. job'[v] = job[v] /\ JobIsPaid(job[v]) /\ JobMakesSense(job[v])
        BY <3>2, <2>a, <2>j
      <4>2. /\ job[v].at = "claim" => job[v].ev.session \in Sessions
            /\ job[v].at = "apply" => job[v].s \in Sessions
        BY <4>1, <2>e DEF JobMakesSense, SessionSteps
      <4> QED BY <2>a, <4>1, <4>2 DEF JobIsPaid, SaysPaid
    <3> QED BY <3>1, <3>2
  <2>i. ASSUME NEW w \in Workers, NEW j, job' = [job EXCEPT ![w] = j],
               j.at \notin {"claim", "apply"},
               \A s \in Sessions : Charged(s) => Charged(s)'
        PROVE  JobsArePaid'
    <3>1. job'[w] = j /\ \A v \in Workers : v # w => job'[v] = job[v]
      BY <2>i DEF TypeInv, TypeOK
    <3>2. JobIsPaid(job[w])'
      BY <2>i, <3>1 DEF JobIsPaid
    <3> QED BY <2>i, <3>1, <3>2, <2>a DEF TypeInv, TypeOK
  <2>g. ASSUME NEW w \in Workers, NEW label, NEW s,
               job' = [job EXCEPT ![w].at = label, ![w].s = s],
               label # "claim", label = "apply" => Charged(s)',
               \A x \in Sessions : Charged(x) => Charged(x)'
        PROVE  JobsArePaid'
    <3>1. /\ job'[w].at = label /\ job'[w].s = s
          /\ \A v \in Workers : v # w => job'[v] = job[v]
      BY <2>g, <2>j DEF TypeInv, TypeOK, Jobs
    <3>2. JobIsPaid(job[w])'
      BY <2>g, <3>1 DEF JobIsPaid
    <3> QED BY <2>g, <3>1, <3>2, <2>a DEF TypeInv, TypeOK
  <2>k. ASSUME NEW w \in Workers, NEW label, Goto(w, label),
               label # "claim", label = "apply" => session'[job[w].s] \in Complete,
               \A x \in Sessions : Charged(x) => Charged(x)'
        PROVE  JobsArePaid'
    <3>1. job' = [job EXCEPT ![w].at = label, ![w].s = job[w].s]
      BY <2>k, <2>j DEF Goto, Jobs, TypeInv, TypeOK
    <3> QED BY <2>k, <3>1, <2>g DEF Charged
  <2>d. Idle.at \notin {"claim", "apply"}
    BY DEF Idle, Doing
  (* The shape of a step that touches no session and no event but its own. *)
  <2>s. ASSUME UNCHANGED session, events' \subseteq events, JobsArePaid', FulfilledMeansPaid'
        PROVE  PaidInv'
    BY <2>s DEF PaidInv, EventsArePaid, Charged
  <2>f. ASSUME UNCHANGED <<session, status>> PROVE FulfilledMeansPaid'
    BY <2>f DEF PaidInv, FulfilledMeansPaid, Secured
  <2>c. ASSUME UNCHANGED session PROVE \A s \in Sessions : Charged(s) => Charged(s)'
    BY <2>c DEF Charged
  <2>1. ASSUME NEW w \in Workers, Begin(w) PROVE PaidInv'
    <3>1. UNCHANGED <<orderVars, session, events>>
      BY <2>1 DEF Begin, StartSync, StartCancel, StartExpire, StartRetry, Deliver
    <3>2. CASE \E e \in events : Deliver(w, e)
      <4>1. PICK e \in events : job' = [job EXCEPT ![w] = [Idle EXCEPT !.at = "claim", !.ev = e]]
        BY <3>2 DEF Deliver
      <4>2. /\ job'[w].at = "claim" /\ job'[w].ev = e
            /\ \A v \in Workers : v # w => job'[v] = job[v]
        BY <4>1 DEF TypeInv, TypeOK, Idle, Doing
      <4>3. JobIsPaid(job[w])'
        BY <3>1, <4>2 DEF JobIsPaid, PaidInv, EventsArePaid, Charged, SaysPaid
      <4>4. JobsArePaid'
        BY <3>1, <4>2, <4>3, <2>a, <2>c DEF TypeInv, TypeOK
      <4> QED BY <3>1, <4>4, <2>s, <2>f DEF orderVars
    <3>3. CASE StartSync(w) \/ StartCancel(w) \/ StartExpire(w) \/ StartRetry(w)
      <4>1. PICK label, s, by : label \in {"retrieve", "peek", "expireOld"} /\ Start(w, label, s, by)
        BY <3>3 DEF StartSync, StartCancel, StartExpire, StartRetry
      <4>2. Doing(label, s, by).at \notin {"claim", "apply"}
        BY <4>1 DEF Doing
      <4>3. JobsArePaid'
        BY <3>1, <4>1, <4>2, <2>i, <2>c DEF Start
      <4> QED BY <3>1, <4>3, <2>s, <2>f DEF orderVars
    <3> QED BY <2>1, <3>2, <3>3 DEF Begin
  <2>2. ASSUME NEW w \in Workers, Claim(w) PROVE PaidInv'
    <3>1. UNCHANGED <<orderVars, session>>
      BY <2>2 DEF Claim
    <3>2. CASE Return(w)
      BY <3>1, <3>2, <2>i, <2>d, <2>c, <2>s, <2>f DEF Return, orderVars
    <3>3. CASE ~ Return(w)
      <4> DEFINE next == IF job[w].ev.type \in {"completed", "succeeded"} THEN "apply" ELSE "fail"
      <4>1. job' = [job EXCEPT ![w].at = next, ![w].s = job[w].ev.session] /\ UNCHANGED events
        BY <2>2, <3>3 DEF Claim, GotoWith
      <4>2. next # "claim" /\ (next = "apply" => Charged(job[w].ev.session))
        BY <2>2, <2>j DEF Claim, At, JobIsPaid, SaysPaid
      <4>3. JobsArePaid'
        <5> HIDE DEF next
        <5> QED BY <3>1, <4>1, <4>2, <2>g, <2>c DEF Charged
      <4> QED BY <3>1, <4>1, <4>3, <2>s, <2>f DEF orderVars
    <3> QED BY <3>2, <3>3
  <2>3. ASSUME NEW w \in Workers, MarkFailed(w) \/ Export(w) \/ WriteRefund(w) PROVE PaidInv'
    <3>1. Return(w) /\ UNCHANGED <<status, session>>
      BY <2>3 DEF MarkFailed, Export, WriteRefund
    <3> QED BY <3>1, <2>i, <2>d, <2>c, <2>s, <2>f DEF Return
  <2>4. ASSUME NEW w \in Workers, ApplySuccess(w) PROVE PaidInv'
    <3>1. UNCHANGED session /\ events' \subseteq events
      BY <2>4 DEF ApplySuccess, Return
    <3>2. Charged(job[w].s) /\ job[w].s \in Sessions
      BY <2>4, <2>j DEF ApplySuccess, At, JobIsPaid, JobMakesSense, SessionSteps
    <3>3. CASE status = "CANCELLED"
      <4>1. JobsArePaid'
        BY <2>4, <3>1, <3>3, <2>k, <2>c DEF ApplySuccess
      <4>2. FulfilledMeansPaid'
        BY <2>4, <3>1, <3>3, <2>f DEF ApplySuccess
      <4> QED BY <3>1, <4>1, <4>2, <2>s
    <3>4. CASE status # "CANCELLED" /\ pay = "success"
      <4>1. JobsArePaid'
        BY <2>4, <3>1, <3>4, <2>i, <2>d, <2>c DEF ApplySuccess, Return
      <4>2. FulfilledMeansPaid'
        BY <2>4, <3>1, <3>4, <2>f DEF ApplySuccess
      <4> QED BY <3>1, <4>1, <4>2, <2>s
    <3>5. CASE status # "CANCELLED" /\ pay # "success"
      <4>1. JobsArePaid'
        BY <2>4, <3>1, <3>5, <2>k, <2>c DEF ApplySuccess
      <4>2. Secured(job[w].s)
        BY <3>2, <3>5 DEF Charged, Complete, Secured, PaidInv, MoneyInv, RefundMeansCancelled, TypeInv, TypeOK
      <4>3. FulfilledMeansPaid'
        BY <3>1, <3>2, <4>2 DEF FulfilledMeansPaid, Secured
      <4> QED BY <3>1, <4>1, <4>3, <2>s
    <3> QED BY <3>3, <3>4, <3>5
  <2>5. ASSUME NEW w \in Workers, Refund(w) PROVE PaidInv'
    <3>1. job[w].s \in Sessions /\ status = "CANCELLED" /\ UNCHANGED <<status, events>>
      BY <2>5, <2>j DEF Refund, At, JobMakesSense, SessionSteps, JobIsBacked, orderVars
    <3>2. \A x \in Sessions : /\ Charged(x) => Charged(x)'
                              /\ session'[x] \in {"processing", "declined"} => x \in Delayed
      BY <2>5, <3>1 DEF Refund, Charged, Complete, PaidInv, TypeInv, TypeOK
    <3>3. JobsArePaid'
      BY <2>5, <3>2, <2>k DEF Refund
    <3>4. EventsArePaid'
      BY <3>1, <3>2, <2>e DEF PaidInv, EventsArePaid, SaysPaid, TypeInv, TypeOK
    <3> QED BY <3>1, <3>2, <3>3, <3>4 DEF PaidInv, FulfilledMeansPaid
  <2>6. ASSUME NEW w \in Workers, Retrieve(w) \/ PayState(w) PROVE PaidInv'
    <3>1. UNCHANGED <<orderVars, session, events>> /\ job[w].s \in Sessions
      BY <2>6, <2>j DEF Retrieve, PayState, At, JobMakesSense, SessionSteps
    <3>2. session[job[w].s] \in Complete => Charged(job[w].s)
      BY <3>1 DEF PaidInv, Complete, Charged
    <3>3. \/ job' = [job EXCEPT ![w] = Idle]
          \/ \E label \in {"apply", "fail", "cancel"} :
               Goto(w, label) /\ (label = "apply" => Charged(job[w].s))
      BY <2>6, <3>2 DEF Retrieve, PayState
    <3>4. JobsArePaid'
      <4>1. CASE job' = [job EXCEPT ![w] = Idle]
        BY <3>1, <4>1, <2>i, <2>d, <2>c
      <4>2. ASSUME NEW label \in {"apply", "fail", "cancel"}, Goto(w, label),
                   label = "apply" => Charged(job[w].s)
            PROVE  JobsArePaid'
        BY <3>1, <4>2, <2>k, <2>c DEF Charged
      <4> QED BY <3>3, <4>1, <4>2
    <3> QED BY <3>1, <3>4, <2>s, <2>f DEF orderVars
  <2>7. ASSUME NEW w \in Workers, Peek(w) PROVE PaidInv'
    <3> DEFINE next == IF sid = NoSession THEN "cancel" ELSE "payState"
    <3>1. job' = [job EXCEPT ![w].at = next, ![w].s = sid] /\ UNCHANGED <<orderVars, session, events>>
      BY <2>7 DEF Peek, GotoWith
    <3>2. next \in {"cancel", "payState"}
      OBVIOUS
    <3>3. JobsArePaid'
      <4> HIDE DEF next
      <4> QED BY <3>1, <3>2, <2>g, <2>c
    <3> QED BY <3>1, <3>3, <2>s, <2>f DEF orderVars
  <2>8. ASSUME NEW w \in Workers, Cancel(w) PROVE PaidInv'
    <3>1. UNCHANGED <<session, events>>
      BY <2>8 DEF Cancel
    <3>2. status' = status \/ status' = "CANCELLED"
      BY <2>8 DEF Cancel
    <3>3. job' = [job EXCEPT ![w] = Idle] \/ GotoWith(w, "close", sid)
      BY <2>8 DEF Cancel
    <3>4. JobsArePaid'
      <4>1. CASE job' = [job EXCEPT ![w] = Idle]
        BY <3>1, <4>1, <2>i, <2>d, <2>c
      <4>2. CASE GotoWith(w, "close", sid)
        BY <3>1, <4>2, <2>g, <2>c DEF GotoWith
      <4> QED BY <3>3, <4>1, <4>2
    <3>5. FulfilledMeansPaid'
      BY <3>1, <3>2 DEF PaidInv, FulfilledMeansPaid, Secured
    <3> QED BY <3>1, <3>4, <3>5, <2>s
  <2>9. ASSUME NEW w \in Workers, Close(w) \/ ExpireOld(w) PROVE PaidInv'
    <3>1. PICK next \in {"release", "mint"} : ExpireIfOpen(w, next)
      BY <2>9 DEF Close, ExpireOld
    <3>2. \A x \in Sessions : /\ Secured(x) => Secured(x)'
                              /\ Charged(x) => Charged(x)'
                              /\ session'[x] \in {"processing", "declined"} => x \in Delayed
      BY <3>1, <2>j DEF ExpireIfOpen, CloseSession, Jobs, Charged, Complete, Secured, PaidInv, TypeInv, TypeOK
    <3>3. JobsArePaid'
      BY <3>1, <3>2, <2>k DEF ExpireIfOpen
    <3>4. UNCHANGED status /\ \A e \in events' : SaysPaid(e) => e \in events
      BY <3>1 DEF ExpireIfOpen, CloseSession, Event, SaysPaid, orderVars
    <3>5. EventsArePaid'
      BY <3>2, <3>4, <2>e DEF PaidInv, EventsArePaid, SaysPaid, TypeInv, TypeOK
    <3> QED BY <3>2, <3>3, <3>4, <3>5 DEF PaidInv, FulfilledMeansPaid
  <2>10. ASSUME NEW w \in Workers, Release(w) \/ Window(w) \/ Crash(w) PROVE PaidInv'
    <3>1. job' = [job EXCEPT ![w] = Idle] /\ UNCHANGED <<status, session, events>>
      BY <2>10 DEF Release, Window, Crash, orderVars
    <3> QED BY <3>1, <2>i, <2>d, <2>c, <2>s, <2>f
  <2>11. ASSUME NEW w \in Workers, Mint(w) \/ Record(w) PROVE PaidInv'
    <3>1. UNCHANGED <<status, events>>
      BY <2>11 DEF Mint, Record, orderVars
    <3>2. \A x \in Sessions : /\ Secured(x) => Secured(x)'
                              /\ Charged(x) => Charged(x)'
                              /\ session'[x] \in {"processing", "declined"} => x \in Delayed
      BY <2>11, <2>j DEF Mint, Record, Jobs, Charged, Complete, Secured, PaidInv, TypeInv, TypeOK
    <3>3. \/ job' = [job EXCEPT ![w] = Idle] \/ Goto(w, "window")
          \/ \E s \in Sessions : GotoWith(w, "record", s)
      BY <2>11 DEF Mint, Record
    <3>4. JobsArePaid'
      <4>1. CASE job' = [job EXCEPT ![w] = Idle]
        BY <3>2, <4>1, <2>i, <2>d
      <4>2. CASE Goto(w, "window")
        BY <3>2, <4>2, <2>k
      <4>3. ASSUME NEW s \in Sessions, GotoWith(w, "record", s) PROVE JobsArePaid'
        BY <3>2, <4>3, <2>g DEF GotoWith
      <4> QED BY <3>3, <4>1, <4>2, <4>3
    <3>5. EventsArePaid'
      BY <3>1, <3>2, <2>e DEF PaidInv, EventsArePaid, SaysPaid, TypeInv, TypeOK
    <3> QED BY <3>1, <3>2, <3>4, <3>5 DEF PaidInv, FulfilledMeansPaid
  <2>12. ASSUME NEW s \in Sessions, Pay(s) \/ PayAsync(s) \/ Settle(s) \/ SessionExpires(s)
         PROVE  PaidInv'
    <3>2. UNCHANGED <<orderVars, job>>
      BY <2>12 DEF Pay, PayAsync, Settle, SessionExpires
    <3>3. \A x \in Sessions : /\ Secured(x) => Secured(x)'
                              /\ Charged(x) => Charged(x)'
                              /\ session'[x] \in {"processing", "declined"} => x \in Delayed
      BY <2>12 DEF Pay, PayAsync, Settle, SessionExpires, CloseSession, Charged, Complete, Secured, PaidInv,
                   TypeInv, TypeOK
    <3>4. \A e \in events' : SaysPaid(e) => e \in events \/ Charged(e.session)'
      BY <2>12 DEF Pay, PayAsync, Settle, SessionExpires, CloseSession, Event, SaysPaid, Charged, Complete,
                   TypeInv, TypeOK
    <3>5. EventsArePaid'
      BY <3>3, <3>4, <2>e DEF PaidInv, EventsArePaid, SaysPaid, TypeInv, TypeOK
    <3>6. ASSUME NEW w \in Workers PROVE JobIsPaid(job[w])'
      <4>1. /\ job[w].at = "claim" => job[w].ev.session \in Sessions
            /\ job[w].at = "apply" => job[w].s \in Sessions
        BY <2>j, <2>e DEF JobMakesSense, SessionSteps
      <4> QED BY <3>2, <3>3, <4>1, <2>j DEF JobIsPaid, SaysPaid
    <3> QED BY <3>2, <3>3, <3>5, <3>6 DEF PaidInv, FulfilledMeansPaid, JobsArePaid, orderVars
  <2>13. CASE BecomesOverdue \/ UNCHANGED vars
    BY <2>13 DEF BecomesOverdue, vars, orderVars, PaidInv, EventsArePaid, JobsArePaid, JobIsPaid,
                 Charged, Secured, FulfilledMeansPaid
  <2> QED
    BY <2>1, <2>2, <2>3, <2>4, <2>5, <2>6, <2>7, <2>8, <2>9, <2>10, <2>11, <2>12, <2>13
    DEF Next, Continue
<1>3. PaidInv => FulfilledMeansPaid
  BY DEF PaidInv
<1> QED
  BY TypeInvariant, MoneyIsSafe, <1>1, <1>2, <1>3, PTL DEF Spec

-----------------------------------------------------------------------------
(* The code implements PaymentPromise under every fault: the order is      *)
(* decided once, fulfilled only against money or the promise of it, and    *)
(* what goes back had been taken, once, for a cancelled order.             *)
THEOREM Implements == Spec => KeepsPromise
<1> DEFINE money == [s \in Sessions |-> MoneyOf(session[s])]
<1>1. Init => Promise!Init
  BY DEF Init, Promise!Init, MoneyOf
<1>2. /\ TypeInv /\ MoneyInv /\ (FulfilledMeansPaid)' /\ [Next]_vars
      => [Promise!Next]_<<status, money>>
  <2> SUFFICES ASSUME TypeInv, MoneyInv, (FulfilledMeansPaid)', [Next]_vars
               PROVE  [Promise!Next]_<<status, money>>
    OBVIOUS
  <2>t. session \in [Sessions -> SessionStates]
    BY DEF TypeInv, TypeOK
  (* What a call does inside the shop, where no session changes hands.     *)
  <2>1. ASSUME NEW w \in Workers, Begin(w) \/ Crash(w) PROVE UNCHANGED <<status, session>>
    BY <2>1 DEF Begin, StartSync, StartCancel, StartExpire, StartRetry, Deliver, Crash, orderVars
  <2>2. ASSUME NEW w \in Workers,
               Claim(w) \/ MarkFailed(w) \/ Export(w) \/ WriteRefund(w) \/ Retrieve(w) \/ Peek(w)
        PROVE  UNCHANGED <<status, session>>
    BY <2>2 DEF Claim, MarkFailed, Export, WriteRefund, Retrieve, Peek, orderVars
  <2>3. ASSUME NEW w \in Workers, PayState(w) \/ Release(w) \/ Window(w)
        PROVE  UNCHANGED <<status, session>>
    BY <2>3 DEF PayState, Release, Window, orderVars
  <2>4. CASE BecomesOverdue \/ UNCHANGED vars
    BY <2>4 DEF BecomesOverdue, vars, orderVars
  (* A session that changes its state without money moving.                *)
  <2>5. ASSUME NEW s \in Sessions, NEW to, session' = [session EXCEPT ![s] = to],
               MoneyOf(to) = MoneyOf(session[s])
        PROVE  UNCHANGED money
    BY <2>5, <2>t
  <2>6. ASSUME NEW s \in Sessions, NEW to, session' = [session EXCEPT ![s] = to]
        PROVE  money' = [money EXCEPT ![s] = MoneyOf(to)]
    BY <2>6, <2>t
  <2>7. ASSUME NEW w \in Workers, ApplySuccess(w) PROVE [Promise!Next]_<<status, money>>
    <3>1. UNCHANGED session
      BY <2>7 DEF ApplySuccess
    <3>2. CASE UNCHANGED status
      BY <3>1, <3>2
    <3>3. CASE status' = "PROCESSING" /\ status' # status
      <4>1. status = "AWAITING_PAYMENT"
        BY <2>7, <3>3 DEF ApplySuccess, TypeInv, TypeOK
      <4>2. PICK s \in Sessions : session[s] \in {"paid", "processing", "declined"}
        BY <3>1, <3>3 DEF FulfilledMeansPaid, Secured
      <4>3. money[s] \in {"promised", "taken"}
        BY <4>2 DEF MoneyOf
      <4>4. Promise!Fulfilled
        BY <3>1, <3>3, <4>1, <4>3 DEF Promise!Fulfilled, Promise!Decided
      <4> QED BY <4>4 DEF Promise!Next
    <3> QED BY <2>7, <3>2, <3>3 DEF ApplySuccess
  <2>8. ASSUME NEW w \in Workers, Cancel(w) PROVE [Promise!Next]_<<status, money>>
    <3>1. UNCHANGED session /\ (status' = status
                                \/ (status = "AWAITING_PAYMENT" /\ status' = "CANCELLED"))
      BY <2>8 DEF Cancel
    <3> QED BY <3>1 DEF Promise!Next, Promise!Cancelled, Promise!Decided
  <2>9. ASSUME NEW w \in Workers, Refund(w) PROVE [Promise!Next]_<<status, money>>
    <3>1. status = "CANCELLED" /\ UNCHANGED status
      BY <2>9 DEF Refund, At, MoneyInv, JobsAreBacked, JobIsBacked, orderVars
    <3>2. CASE UNCHANGED session
      BY <3>1, <3>2
    <3>3. CASE session[job[w].s] = "paid" /\ session' = [session EXCEPT ![job[w].s] = "refunded"]
      <4>1. PICK s \in Sessions : s = job[w].s
        BY <2>9 DEF Refund, At, TypeInv, JobsMakeSense, JobMakesSense, SessionSteps
      <4>2. money[s] = "taken" /\ money' = [money EXCEPT ![s] = "returned"]
        BY <3>3, <4>1, <2>6 DEF MoneyOf
      <4>3. Promise!Returned(s)
        BY <3>1, <4>2 DEF Promise!Returned, Promise!Moves
      <4> QED BY <4>3 DEF Promise!Next
    <3> QED BY <2>9, <3>2, <3>3 DEF Refund
  <2>10. ASSUME NEW s \in Sessions, session[s] \in {"minted", "open"}, CloseSession(s)
         PROVE  UNCHANGED money
    BY <2>10, <2>5 DEF CloseSession, MoneyOf
  <2>11. ASSUME NEW w \in Workers, Close(w) \/ ExpireOld(w) PROVE UNCHANGED <<status, money>>
    <3>1. PICK next : ExpireIfOpen(w, next)
      BY <2>11 DEF Close, ExpireOld
    <3>2. CASE UNCHANGED session
      BY <3>1, <3>2 DEF ExpireIfOpen, orderVars
    <3>3. CASE job[w].s # NoSession /\ session[job[w].s] = "open" /\ CloseSession(job[w].s)
      <4>1. job[w].s \in Sessions
        BY <3>3 DEF TypeInv, TypeOK, Jobs
      <4> QED BY <3>1, <3>3, <4>1, <2>10 DEF ExpireIfOpen, orderVars
    <3> QED BY <3>1, <3>2, <3>3 DEF ExpireIfOpen
  <2>12. ASSUME NEW w \in Workers, Mint(w) PROVE UNCHANGED <<status, money>>
    <3>1. \/ UNCHANGED session
          \/ \E s \in Sessions : session[s] = "unused" /\ session' = [session EXCEPT ![s] = "minted"]
      BY <2>12 DEF Mint
    <3>2. UNCHANGED status
      BY <2>12 DEF Mint, orderVars
    <3> QED BY <3>1, <3>2, <2>5 DEF MoneyOf
  <2>13. ASSUME NEW w \in Workers, Record(w) PROVE UNCHANGED <<status, money>>
    <3>1. PICK s \in Sessions : s = job[w].s
      BY <2>13 DEF Record, At, TypeInv, JobsMakeSense, JobMakesSense, SessionSteps
    <3>2. \/ UNCHANGED session
          \/ session[s] = "minted" /\ session' = [session EXCEPT ![s] = "open"]
      BY <2>13, <3>1 DEF Record
    <3>3. UNCHANGED status
      BY <2>13 DEF Record
    <3> QED BY <3>2, <3>3, <2>5 DEF MoneyOf
  (* The customer and Stripe.                                              *)
  <2>14. ASSUME NEW s \in Sessions, Pay(s) PROVE Promise!Next
    <3>1. money[s] = "none" /\ money' = [money EXCEPT ![s] = "taken"] /\ UNCHANGED status
      BY <2>14, <2>6 DEF Pay, MoneyOf, orderVars
    <3> QED BY <3>1 DEF Promise!Next, Promise!Taken, Promise!Moves
  <2>15. ASSUME NEW s \in Sessions, PayAsync(s) PROVE Promise!Next
    <3>1. money[s] = "none" /\ money' = [money EXCEPT ![s] = "promised"] /\ UNCHANGED status
      BY <2>15, <2>6 DEF PayAsync, MoneyOf, orderVars
    <3> QED BY <3>1 DEF Promise!Next, Promise!Promised, Promise!Moves
  <2>16. ASSUME NEW s \in Sessions, Settle(s) PROVE [Promise!Next]_<<status, money>>
    <3>1. UNCHANGED status /\ money[s] = "promised" /\ session[s] = "processing"
      BY <2>16 DEF Settle, MoneyOf, orderVars
    <3>2. CASE session' = [session EXCEPT ![s] = "paid"]
      <4>1. money' = [money EXCEPT ![s] = "taken"]
        BY <3>2, <2>6 DEF MoneyOf
      <4> QED BY <3>1, <4>1 DEF Promise!Next, Promise!Taken, Promise!Moves
    <3>3. CASE session' = [session EXCEPT ![s] = "declined"]
      BY <3>1, <3>3, <2>5 DEF MoneyOf
    <3> QED BY <2>16, <3>2, <3>3 DEF Settle
  <2>17. ASSUME NEW s \in Sessions, SessionExpires(s) PROVE UNCHANGED <<status, money>>
    BY <2>17, <2>10 DEF SessionExpires, orderVars
  <2> HIDE DEF money
  <2>s. ASSUME UNCHANGED <<status, session>> PROVE UNCHANGED <<status, money>>
    BY <2>s DEF money
  <2> QED
    BY <2>1, <2>2, <2>3, <2>4, <2>7, <2>8, <2>9, <2>11, <2>12, <2>13, <2>14, <2>15, <2>16, <2>17,
       <2>s
    DEF Next, Continue
<1> QED
  BY TypeInvariant, MoneyIsSafe, PaidBeforeProcessing, <1>1, <1>2, PTL
  DEF Spec, KeepsPromise, Promise!Spec

-----------------------------------------------------------------------------
(* At most one session is ever created: a retry alone makes another.       *)
OneMint == (\A s, t \in Sessions : s = t) \/ "retry" \notin Calls

(* A session is handed to the customer only by the worker that minted it,  *)
(* and there is one; the first success is the only one that gets as far as *)
(* the export, because nothing writes paymentStatus over a success.        *)
ExportInv ==
  /\ \A s, t \in Sessions : session[s] # "unused" /\ session[t] # "unused" => s = t
  /\ \A w \in Workers : job[w].at = "record" => session[job[w].s] \in {"minted", "expired"}
  /\ \A v, w \in Workers : job[v].at = "record" /\ job[w].at = "record" => v = w
  /\ "retry" \notin Calls =>
       \A w \in Workers :
         /\ job[w].at # "expireOld"
         /\ job[w].at = "mint" => /\ \A s \in Sessions : session[s] = "unused"
                                 /\ \A v \in Workers : job[v].at = "mint" => v = w
  /\ status = "PROCESSING" => pay = "success"
  /\ \A w \in Workers : job[w].at = "export" => status = "PROCESSING" /\ exports = 0
  /\ \A v, w \in Workers : job[v].at = "export" /\ job[w].at = "export" => v = w
  /\ exports > 0 => status = "PROCESSING" /\ exports = 1

(* One payment asks the ERP for one export, however often its events are   *)
(* sent, whoever notices it first and whatever fails in between.           *)
THEOREM ExportsOnce == ASSUME OneMint PROVE Spec => []ExportedOnce
<1>1. Init => ExportInv
  <2> SUFFICES ASSUME Init PROVE ExportInv
    OBVIOUS
  <2>1. PICK w \in Workers :
          job = [v \in Workers |->
                   IF v = w THEN Doing("mint", NoSession, "CHECKOUT") ELSE Idle]
    BY DEF Init
  <2>2. \A v \in Workers : job[v].at = IF v = w THEN "mint" ELSE "idle"
    BY <2>1 DEF Doing, Idle
  <2> QED BY <2>2 DEF Init, ExportInv
<1>2. TypeInv /\ TypeInv' /\ MoneyInv /\ FulfilledMeansPaid /\ ExportInv /\ [Next]_vars => ExportInv'
  <2> SUFFICES ASSUME TypeInv, TypeInv', MoneyInv, FulfilledMeansPaid, ExportInv, [Next]_vars
               PROVE  ExportInv'
    OBVIOUS
  <2>j. ASSUME NEW w \in Workers
        PROVE  job[w] \in Jobs /\ JobMakesSense(job[w]) /\ JobIsBacked(job[w])
    BY DEF TypeInv, TypeOK, JobsMakeSense, MoneyInv, JobsAreBacked
  <2>o. ASSUME NEW w \in Workers, NEW j, job' = [job EXCEPT ![w] = j]
        PROVE  job'[w] = j /\ \A v \in Workers : v # w => job'[v] = job[v]
    BY <2>o DEF TypeInv, TypeOK
  <2>g. ASSUME NEW w \in Workers, NEW label, Goto(w, label)
        PROVE  job'[w].at = label /\ \A v \in Workers : v # w => job'[v] = job[v]
    BY <2>g, <2>j DEF Goto, TypeInv, TypeOK, Jobs
  <2>s. ASSUME NEW w \in Workers, NEW label, NEW s, GotoWith(w, label, s)
        PROVE  job'[w].at = label /\ job'[w].s = s /\ \A v \in Workers : v # w => job'[v] = job[v]
    BY <2>s, <2>j DEF GotoWith, TypeInv, TypeOK, Jobs
  <2>i. Idle.at = "idle"
    BY DEF Idle, Doing
  (* A step of w that ends neither with a new session nor on the way to    *)
  (* the export.                                                           *)
  <2>q. ASSUME NEW w \in Workers, \A v \in Workers : v # w => job'[v] = job[v],
               job'[w].at \notin {"record", "export", "mint", "expireOld"},
               status' = "PROCESSING" => status = "PROCESSING" /\ pay' = pay,
               status = "PROCESSING" => status' = "PROCESSING",
               UNCHANGED exports,
               \A x \in Sessions : /\ session'[x] = "unused" <=> session[x] = "unused"
                                   /\ session[x] \in {"minted", "expired"}
                                        => session'[x] \in {"minted", "expired"}
        PROVE  ExportInv'
    <3>1. \A v \in Workers : job'[v].at \in {"record", "export", "mint", "expireOld"} =>
            job'[v] = job[v]
      BY <2>q
    <3>2. \A v \in Workers : job[v].at = "record" => job[v].s \in Sessions
      BY <2>j DEF JobMakesSense, SessionSteps
    <3> QED BY <2>q, <3>1, <3>2 DEF ExportInv
  <2>1. ASSUME NEW w \in Workers, Begin(w) PROVE ExportInv'
    <3>1. UNCHANGED <<orderVars, session>>
      BY <2>1 DEF Begin, StartSync, StartCancel, StartExpire, StartRetry, Deliver
    <3>2. CASE \E e \in events : Deliver(w, e)
      <4>1. PICK e \in events : job' = [job EXCEPT ![w] = [Idle EXCEPT !.at = "claim", !.ev = e]]
        BY <3>2 DEF Deliver
      <4>2. [Idle EXCEPT !.at = "claim", !.ev = e].at = "claim"
        BY DEF Idle, Doing
      <4> QED BY <3>1, <4>1, <4>2, <2>o, <2>q DEF orderVars
    <3>3. CASE StartSync(w) \/ StartCancel(w) \/ StartExpire(w)
      <4>1. PICK label, s, by : label \in {"retrieve", "peek"} /\ Start(w, label, s, by)
        BY <3>3 DEF StartSync, StartCancel, StartExpire
      <4>2. Doing(label, s, by).at = label /\ job' = [job EXCEPT ![w] = Doing(label, s, by)]
        BY <4>1 DEF Start, Doing
      <4>3. job'[w].at = label /\ \A v \in Workers : v # w => job'[v] = job[v]
        BY <4>2, <2>o
      <4> QED BY <3>1, <4>1, <4>3, <2>q DEF orderVars
    <3>4. CASE StartRetry(w)
      <4>1. /\ "retry" \in Calls
            /\ Doing("expireOld", sid, "USER").at = "expireOld"
            /\ job' = [job EXCEPT ![w] = Doing("expireOld", sid, "USER")]
        BY <3>4 DEF StartRetry, Start, Doing
      <4>2. job'[w].at = "expireOld" /\ \A v \in Workers : v # w => job'[v] = job[v]
        BY <4>1, <2>o
      <4> QED BY <3>1, <4>1, <4>2 DEF orderVars, ExportInv
    <3> QED BY <2>1, <3>2, <3>3, <3>4 DEF Begin
  <2>2. ASSUME NEW w \in Workers, Claim(w) PROVE ExportInv'
    <3>1. UNCHANGED <<orderVars, session>>
      BY <2>2 DEF Claim
    <3>2. PICK label \in {"idle", "apply", "fail"} :
            job'[w].at = label /\ \A v \in Workers : v # w => job'[v] = job[v]
      BY <2>2, <2>o, <2>s, <2>i DEF Claim, Return
    <3> QED BY <3>1, <3>2, <2>q DEF orderVars
  <2>3. ASSUME NEW w \in Workers, MarkFailed(w) PROVE ExportInv'
    <3>1. UNCHANGED <<status, exports, session>> /\ (pay = "success" => pay' = pay)
      BY <2>3 DEF MarkFailed
    <3>2. job'[w].at = "idle" /\ \A v \in Workers : v # w => job'[v] = job[v]
      BY <2>3, <2>o, <2>i DEF MarkFailed, Return
    <3> QED BY <3>1, <3>2, <2>q DEF ExportInv
  <2>4. ASSUME NEW w \in Workers, ApplySuccess(w) PROVE ExportInv'
    <3>1. UNCHANGED <<exports, session>>
      BY <2>4 DEF ApplySuccess
    <3>2. CASE UNCHANGED <<status, pay>> /\ (Goto(w, "refund") \/ Return(w))
      <4>1. job'[w].at \in {"refund", "idle"} /\ \A v \in Workers : v # w => job'[v] = job[v]
        BY <3>2, <2>g, <2>o, <2>i DEF Return
      <4> QED BY <3>1, <3>2, <4>1, <2>q
    <3>3. CASE pay # "success" /\ status' = "PROCESSING" /\ pay' = "success" /\ Goto(w, "export")
      <4>1. job'[w].at = "export" /\ \A v \in Workers : v # w => job'[v] = job[v]
        BY <3>3, <2>g
      <4>2. exports = 0 /\ \A v \in Workers : job[v].at # "export"
        BY <3>3 DEF ExportInv, TypeInv, TypeOK
      <4> QED BY <3>1, <3>3, <4>1, <4>2 DEF ExportInv
    <3> QED BY <2>4, <3>2, <3>3 DEF ApplySuccess
  <2>5. ASSUME NEW w \in Workers, Export(w) PROVE ExportInv'
    <3>1. exports = 0 /\ status = "PROCESSING" /\ \A v \in Workers : v # w => job[v].at # "export"
      BY <2>5 DEF Export, At, ExportInv
    <3>2. exports' = 1 /\ UNCHANGED <<status, pay, session>>
      BY <2>5, <3>1 DEF Export
    <3>3. job'[w].at = "idle" /\ \A v \in Workers : v # w => job'[v] = job[v]
      BY <2>5, <2>o, <2>i DEF Export, Return
    <3> QED BY <3>1, <3>2, <3>3 DEF ExportInv
  <2>6. ASSUME NEW w \in Workers, Refund(w) PROVE ExportInv'
    <3>1. UNCHANGED orderVars /\ job[w].s \in Sessions
      BY <2>6, <2>j DEF Refund, At, JobMakesSense, SessionSteps
    <3>2. \A x \in Sessions : \/ session'[x] = session[x]
                              \/ session[x] = "paid" /\ session'[x] = "refunded"
      BY <2>6, <3>1 DEF Refund, TypeInv, TypeOK
    <3>3. job'[w].at \in {"refunded", "notRefunded"} /\ \A v \in Workers : v # w => job'[v] = job[v]
      BY <2>6, <2>g DEF Refund
    <3> QED BY <3>1, <3>2, <3>3, <2>q DEF orderVars
  <2>7. ASSUME NEW w \in Workers, WriteRefund(w) PROVE ExportInv'
    <3>1. status = "CANCELLED" /\ UNCHANGED <<status, exports, session>>
      BY <2>7, <2>j DEF WriteRefund, At, JobIsBacked
    <3>2. job'[w].at = "idle" /\ \A v \in Workers : v # w => job'[v] = job[v]
      BY <2>7, <2>o, <2>i DEF WriteRefund, Return
    <3> QED BY <3>1, <3>2, <2>q
  <2>8. ASSUME NEW w \in Workers, Retrieve(w) \/ Peek(w) \/ PayState(w) PROVE ExportInv'
    <3>1. UNCHANGED <<orderVars, session>>
      BY <2>8 DEF Retrieve, Peek, PayState
    <3>2. PICK label \in {"idle", "apply", "fail", "cancel", "payState"} :
            job'[w].at = label /\ \A v \in Workers : v # w => job'[v] = job[v]
      <4>1. CASE Retrieve(w)
        BY <4>1, <2>g, <2>o, <2>i DEF Retrieve
      <4>2. CASE Peek(w)
        BY <4>2, <2>s DEF Peek
      <4>3. CASE PayState(w)
        BY <4>3, <2>g DEF PayState
      <4> QED BY <2>8, <4>1, <4>2, <4>3
    <3> QED BY <3>1, <3>2, <2>q DEF orderVars
  <2>9. ASSUME NEW w \in Workers, Cancel(w) PROVE ExportInv'
    <3>1. UNCHANGED <<pay, exports, session>>
      BY <2>9 DEF Cancel
    <3>2. status' = status \/ (status = "AWAITING_PAYMENT" /\ status' = "CANCELLED")
      BY <2>9 DEF Cancel
    <3>3. job'[w].at \in {"idle", "close"} /\ \A v \in Workers : v # w => job'[v] = job[v]
      BY <2>9, <2>s, <2>o, <2>i DEF Cancel
    <3> QED BY <3>1, <3>2, <3>3, <2>q
  <2>10. ASSUME NEW w \in Workers, NEW next, ExpireIfOpen(w, next)
         PROVE  /\ UNCHANGED orderVars
                /\ \A x \in Sessions : \/ session'[x] = session[x]
                                       \/ session[x] = "open" /\ session'[x] = "expired"
                /\ job'[w].at = next /\ \A v \in Workers : v # w => job'[v] = job[v]
    <3>1. \A x \in Sessions : \/ session'[x] = session[x]
                              \/ session[x] = "open" /\ session'[x] = "expired"
      BY <2>10 DEF ExpireIfOpen, CloseSession, TypeInv, TypeOK
    <3> QED BY <2>10, <3>1, <2>g DEF ExpireIfOpen
  <2>11. ASSUME NEW w \in Workers, Close(w) PROVE ExportInv'
    BY <2>11, <2>10, <2>q DEF Close, orderVars
  <2>12. ASSUME NEW w \in Workers, ExpireOld(w) PROVE ExportInv'
    <3>1. "retry" \in Calls
      BY <2>12 DEF ExpireOld, At, ExportInv
    <3>2. /\ UNCHANGED orderVars
          /\ \A x \in Sessions : \/ session'[x] = session[x]
                                 \/ session[x] = "open" /\ session'[x] = "expired"
          /\ job'[w].at = "mint" /\ \A v \in Workers : v # w => job'[v] = job[v]
      BY <2>12, <2>10 DEF ExpireOld
    <3>3. \A v \in Workers : job[v].at = "record" => job[v].s \in Sessions
      BY <2>j DEF JobMakesSense, SessionSteps
    <3> QED BY <3>1, <3>2, <3>3 DEF ExportInv, orderVars
  <2>13. ASSUME NEW w \in Workers, Release(w) \/ Window(w) \/ Crash(w) PROVE ExportInv'
    <3>1. UNCHANGED <<status, pay, exports, session>> /\ job' = [job EXCEPT ![w] = Idle]
      BY <2>13 DEF Release, Window, Crash, orderVars
    <3> QED BY <3>1, <2>o, <2>i, <2>q
  <2>14. ASSUME NEW w \in Workers, Mint(w) PROVE ExportInv'
    <3>1. UNCHANGED orderVars /\ At(w, "mint")
      BY <2>14 DEF Mint
    <3>2. CASE job' = [job EXCEPT ![w] = Idle] /\ UNCHANGED session
      BY <3>1, <3>2, <2>o, <2>i, <2>q DEF orderVars
    <3>3. ASSUME NEW s \in Sessions, session[s] = "unused",
                 session' = [session EXCEPT ![s] = "minted"], GotoWith(w, "record", s)
          PROVE  ExportInv'
      <4>1. /\ job'[w].at = "record" /\ job'[w].s = s
            /\ \A v \in Workers : v # w => job'[v] = job[v]
        BY <3>3, <2>s
      <4>2. \A x \in Sessions : session[x] = "unused"
        BY <3>1, <3>3 DEF OneMint, ExportInv, At
      <4>3. \A v \in Workers : job[v].at = "record" => job[v].s \in Sessions
        BY <2>j DEF JobMakesSense, SessionSteps
      <4>4. \A v \in Workers : job[v].at # "record"
        BY <4>2, <4>3 DEF ExportInv
      <4>5. session'[s] = "minted" /\ \A x \in Sessions : x # s => session'[x] = "unused"
        BY <3>3, <4>2 DEF TypeInv, TypeOK
      <4>6. "retry" \notin Calls =>
              \A v \in Workers : job'[v].at # "expireOld" /\ job'[v].at # "mint"
        BY <3>1, <4>1 DEF ExportInv, At
      <4> QED BY <3>1, <4>1, <4>4, <4>5, <4>6 DEF ExportInv, orderVars
    <3> QED BY <2>14, <3>2, <3>3 DEF Mint
  <2>15. ASSUME NEW w \in Workers, Record(w) PROVE ExportInv'
    <3>1. job[w].s \in Sessions /\ session[job[w].s] \in {"minted", "expired"}
      BY <2>15, <2>j DEF Record, At, JobMakesSense, SessionSteps, ExportInv
    <3>2. status # "PROCESSING"
      BY <3>1 DEF FulfilledMeansPaid, Secured, ExportInv
    <3>3. UNCHANGED <<status, exports>>
      BY <2>15 DEF Record
    <3>4. job'[w].at \in {"idle", "window"} /\ \A v \in Workers : v # w => job'[v] = job[v]
      BY <2>15, <2>g, <2>o, <2>i DEF Record
    <3>5. \A x \in Sessions : x # job[w].s => session'[x] = session[x]
      BY <2>15 DEF Record, TypeInv, TypeOK
    <3>6. session'[job[w].s] # "unused"
      BY <2>15, <3>1 DEF Record, TypeInv, TypeOK
    <3>7. \A v \in Workers : job'[v].at # "record"
      BY <2>15, <3>4 DEF Record, At, ExportInv
    <3>8. \A x \in Sessions : session'[x] # "unused" => session[x] # "unused"
      BY <3>1, <3>5
    <3>9. "retry" \notin Calls => \A v \in Workers : job'[v].at # "expireOld" /\ job'[v].at # "mint"
      BY <3>1, <3>4 DEF ExportInv
    <3> QED BY <3>2, <3>3, <3>4, <3>7, <3>8, <3>9 DEF ExportInv
  <2>16. ASSUME NEW s \in Sessions, Pay(s) \/ PayAsync(s) \/ Settle(s) \/ SessionExpires(s)
         PROVE  ExportInv'
    <3>1. UNCHANGED <<orderVars, job>>
      BY <2>16 DEF Pay, PayAsync, Settle, SessionExpires
    <3>2. \A x \in Sessions : /\ session'[x] = "unused" <=> session[x] = "unused"
                              /\ session[x] \in {"minted", "expired"}
                                   => session'[x] \in {"minted", "expired"}
      BY <2>16 DEF Pay, PayAsync, Settle, SessionExpires, CloseSession, TypeInv, TypeOK
    <3>3. \A v \in Workers : job[v].at = "record" => job[v].s \in Sessions
      BY <2>j DEF JobMakesSense, SessionSteps
    <3> QED BY <3>1, <3>2, <3>3 DEF ExportInv, orderVars
  <2>17. CASE BecomesOverdue \/ UNCHANGED vars
    BY <2>17 DEF BecomesOverdue, vars, orderVars, ExportInv
  <2> QED
    BY <2>1, <2>2, <2>3, <2>4, <2>5, <2>6, <2>7, <2>8, <2>9, <2>11, <2>12, <2>13, <2>14, <2>15,
       <2>16, <2>17
    DEF Next, Continue
<1>3. TypeInv /\ ExportInv => ExportedOnce
  BY DEF ExportInv, ExportedOnce, TypeInv, TypeOK
<1> QED
  BY TypeInvariant, MoneyIsSafe, PaidBeforeProcessing, <1>1, <1>2, <1>3, PTL DEF Spec
=============================================================================
