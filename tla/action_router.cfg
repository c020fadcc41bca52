SPECIFICATION Spec
CONSTANTS
  i1 = i1
  v1 = v1
  v2 = v2
  p1 = p1
  p2 = p2
  a1 = a1
  a2 = a2
  NoVariant = NoVariant
  NoRoute = NoRoute
  Items = {i1}
  Variants = {v1, v2}
  Dest <- BacklogOrShelf
  Tables = {"backlog_items"}
  Proposers = {p1, p2}
  Reviewers = {a1, a2}
SYMMETRY RouterSymmetry
INVARIANTS
  OneRoutePerItem
  RoutedItemsStay
  OneRecordPerRoute
PROPERTIES
  ImplementsBook
  AnswersAreFinal
  AppliedAsReviewed
