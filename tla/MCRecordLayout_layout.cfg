SPECIFICATION Spec
CONSTANTS
  Basic <- CharShortIntDouble
  Counts <- Three
  LeastMembers = 1
  MaxMembers = 3
  MaxTypes = 6
CHECK_DEADLOCK FALSE
INVARIANTS
  TypeOK
  MembersFit
  MembersAligned
  LayoutsAgree
