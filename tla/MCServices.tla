----------------------------- MODULE MCServices -----------------------------
(***************************************************************************)
(* The services around the orders, one scenario a behaviour: the calendar  *)
(* of dispatch days and the prices of an order with its document in the    *)
(* ERP (DispatchDays, OrderPricing, extended), changes that come in from   *)
(* the ERP, carts, the locks of the synchronisations, photos of reviews.   *)
(* Those a scenario is not about rest in their initial state.  Scenarios   *)
(* are instances of Services for the constants below; where they need      *)
(* others, instances of their own on the same variables.                   *)
(***************************************************************************)
EXTENDS DispatchDays, OrderPricing, PriceCases, Services

VARIABLE scenario

flexiVars == <<changes, site, flexiCursor, accepting, hooks, flexiJob, dirty, failures, proc, bridge, fails, crashed>>
cartVars  == <<cart, checkout, origin, sync, merge, syncs>>
lockVars  == <<protocol, lock, lease, pc, overrun>>
mediaVars == <<link, disk, pending, manifest, attached, reviewed, upload, removal, submit, mediaJob, cleaner, faults>>
allVars   == <<scenario, vars, daysVars, flexiVars, cartVars, lockVars, mediaVars>>

MCWeekends == {{}, {0, 6}, {0}, 0..6, {1, 3, 5}}
MCClosed   == {{}, {6, 7, 8}, {7, 14}}

-----------------------------------------------------------------------------
(* Changes of the ERP at the worst moments are the instance of Services;   *)
(* at other moments with lost webhooks, so that they arrive; and with      *)
(* "update and enable".                                                    *)
Polled == INSTANCE FlexiInbound WITH
  MaxTries <- FlexiTries, Calls <- FlexiCalls,
  Faults <- {"crash", "hookLost"}, Calm <- TRUE, cursor <- flexiCursor, job <- flexiJob

Enabled == INSTANCE FlexiInbound WITH
  MaxTries <- FlexiTries, Calls <- {"hook", "enable"},
  Faults <- {}, Calm <- TRUE, cursor <- flexiCursor, job <- flexiJob

(* Three runs: one that overruns, its successor and a third; under the     *)
(* lock without an owner none overruns.                                    *)
Ownerless == INSTANCE SyncLock WITH Protocols <- {"np"}, Faults <- {"crash"}

(* Prices with the tax, and without it under reverse charge; there without *)
(* percents, which the check before the export takes for nothing.          *)
MCCarts  == SomeCarts \cup AmountCarts
MCPromos == SomePromos \cup AmountPromos
MCTaxes  == [regime : {"included", "reverse_charge"}, rate : {23}]
Priced == IF tax.regime = "included" THEN basket \in SomeCarts /\ promos \in SomePromos
                                     ELSE basket \in AmountCarts /\ promos \in AmountPromos

(* Photos and submissions are alike, so that the first of each may begin   *)
(* first; a second submission comes where one photo is and nothing fails.  *)
PhotosInTurn ==
  /\ upload'["i2"] = "none" \/ upload'["i1"] # "none"
  /\ submit'["s2"].at = "start" \/ (submit'["s1"].at # "start" /\ upload'["i2"] = "none" /\ faults' = 0)

-----------------------------------------------------------------------------
OnlyDays  == UNCHANGED <<scenario, vars, flexiVars, cartVars, lockVars, mediaVars>>
OnlyFlexi == UNCHANGED <<scenario, vars, daysVars, cartVars, lockVars, mediaVars>>
OnlyCart  == UNCHANGED <<scenario, vars, daysVars, flexiVars, lockVars, mediaVars>>
OnlyLock  == UNCHANGED <<scenario, vars, daysVars, flexiVars, cartVars, mediaVars>>
OnlyMedia == UNCHANGED <<scenario, vars, daysVars, flexiVars, cartVars, lockVars>>
OnlyPrice == UNCHANGED <<scenario, daysVars, flexiVars, cartVars, lockVars, mediaVars>>

Is(name) == scenario = name

ServicesInit ==
  /\ scenario \in {"days", "racing", "polled", "enabled", "shopping", "owned", "ownerless", "photos", "prices"}
  /\ DaysInit /\ (Is("days") \/ (base = 0 /\ count = 0 /\ blockedWeekdays = {} /\ blackoutDates = {}))
  /\ Polled!Init /\ Cart!Init /\ Media!Init
  /\ Init /\ IF Is("prices") THEN Priced ELSE basket = Plain /\ promos = <<>> /\ shop = Flat /\ tax.regime = "included"
  /\ IF Is("ownerless") THEN Ownerless!Init ELSE Lock!Init /\ (Is("owned") \/ protocol = "flexi")

ServicesNext ==
  \/ Is("days")      /\ DaysNext       /\ OnlyDays
  \/ Is("racing")    /\ Flexi!Next     /\ OnlyFlexi
  \/ Is("polled")    /\ Polled!Next    /\ OnlyFlexi
  \/ Is("enabled")   /\ Enabled!Next   /\ OnlyFlexi
  \/ Is("shopping")  /\ Cart!Next      /\ OnlyCart
  \/ Is("owned")     /\ Lock!Next      /\ OnlyLock
  \/ Is("ownerless") /\ Ownerless!Next /\ OnlyLock
  \/ Is("photos")    /\ Media!Next     /\ OnlyMedia /\ PhotosInTurn
  \/ Is("prices")    /\ Next           /\ OnlyPrice

(* The fairness of the components; one condition stands for those of       *)
(* several processes where their steps come to an end together.            *)
FlexiWorks ==
  /\ \/ /\ Is("polled")
        /\ \/ Polled!Hooks \/ Polled!Polls \/ Polled!Works \/ Polled!StartPoll
           \/ \E v \in hooks : Polled!Deliver(v)
     \/ /\ Is("enabled")
        /\ \/ Enabled!Hooks \/ Enabled!Works \/ Enabled!Admins
           \/ \E v \in hooks : Enabled!Deliver(v)
  /\ OnlyFlexi

FirstWorks ==
  \/ FlexiWorks
  \/ Is("shopping") /\ Cart!Proceeds("o1") /\ OnlyCart
  \/ Is("photos")   /\ Media!Proceeds      /\ OnlyMedia
SecondWorks == Is("shopping") /\ Cart!Proceeds("o2") /\ OnlyCart

ServicesSpec ==
  /\ ServicesInit /\ [][ServicesNext]_allVars
  /\ WF_allVars(FirstWorks) /\ WF_allVars(SecondWorks)

-----------------------------------------------------------------------------
(* The variables of every component keep their types.                      *)
TypesHold ==
  /\ Polled!TypeOK /\ Cart!TypeOK /\ Media!TypeOK
  /\ IF Is("ownerless") THEN Ownerless!TypeOK ELSE Lock!TypeOK

(* A change of the ERP arrives, or an administrator is told                *)
(* (pollChangesLive, processRefreshJob, updateAndEnable).                  *)
ChangesArrive == Is("racing") \/ Polled!ChangesArrive

(* The cart of an order ends (closeCartForOrder).                          *)
OrderedCartEnds == Cart!OrderedCartEnds

(* A photo nobody attached leaves storage as long as a manifest and a job  *)
(* know of it (processPendingMediaCleanup).                                *)
OrphansGo == Media!OrphansGo
=============================================================================
