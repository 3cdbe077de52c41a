CONSTANTS
  first = first
  second = second
  third = third
  fourth = fourth
  fifth = fifth
  Threads = {first, second, third, fourth, fifth}
  Programs <- Trees
  Main = Main
  None = None
SPECIFICATION SmartThreadSpec
INVARIANTS SmartThreadTypeOK NoWaitCycle NoOrphans
 
CHECK_DEADLOCK FALSE
