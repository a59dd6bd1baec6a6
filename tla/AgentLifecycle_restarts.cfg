\* Two agents and a restart: the loop at boot takes them one after the other.
CONSTANTS
  Agents = {a1, a2}
  MaxSessions = 2
  MaxBoots = 1
SPECIFICATION Spec
INVARIANTS TypeOK RowNamesSession ConversationKept DeletedStaysGone
PROPERTIES OnlyPatchMisleads BootFinishes
CHECK_DEADLOCK FALSE
