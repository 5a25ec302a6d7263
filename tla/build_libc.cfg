SPECIFICATION LibcSpec
CONSTANTS
  Generic = {"divsi3", "memcpy", "udivsi3"}
  Overridden = {"divsi3", "udivsi3"}
  Musl = {"aeabi_memcpy", "aeabi_memset"}
  Cxx = {"cxa_noexception", "debug", "vector"}
  NotWanted = {"cxa_noexception", "debug"}
  MovesFail = FALSE
  MaxBuilds = 4
INVARIANTS RightSources Repairs PacksWhole
CHECK_DEADLOCK FALSE
