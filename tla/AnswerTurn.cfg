SPECIFICATION Spec
CONSTANTS
  to = to
  a1 = a1
  Docs = {to, a1}
  None = None
  Filters = {"date"}
  Searches <- MCSearches
  Drafts <- MCDrafts
  Policies <- MCPolicies
  Budget = 3
  Timeout = 3
  Floor = 1
\* A turn ends.
CHECK_DEADLOCK FALSE
INVARIANTS TypeOK AnsweredIsCited SilencioIsBare DutyIsQuoted FreezeNamed NamedIsCited
