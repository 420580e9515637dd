SPECIFICATION Spec
CONSTANTS
  Readers = {r1}
  Users = {buyer, seller, stranger}
  Buyer = buyer
  Seller = seller
  Files = {f1, f2}
  Blank = Blank
  Null = Null
SYMMETRY Symmetry
INVARIANTS
  TypeOK
  OnlyPartiesServed
  PartiesAreServed
  GapsAreFresh
