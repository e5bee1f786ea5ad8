SPECIFICATION Spec
CONSTANTS
  Carts <- MCCarts
  Promos <- MCPromos
  Shops <- MCShops
  Taxes <- MCTaxes
INVARIANT DocumentIsTheOrder
CHECK_DEADLOCK FALSE
