---- MODULE MCScheduler ----
EXTENDS Scheduler
AllCreated == <<1, 2, 3>>
NoPrimeTask == <<1, 3>>
AllCommands == {"kill", "send", "recv", "exec", "ring3", "elfinfo"}
AllSyscalls == {"exit", "wait", "kill", "send", "recv", "other", "fault"}
====
