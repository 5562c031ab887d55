\* Every hour of the day, restarts and reboots at any point.
SPECIFICATION Spec
CONSTANT MaxFaults = 2
INVARIANTS KeepsBoth PageServed FollowsClock
