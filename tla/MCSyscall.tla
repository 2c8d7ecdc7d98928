------------------------------ MODULE MCSyscall ------------------------------
\* Syscall for TLC.
EXTENDS Syscall, TLC
=============================================================================
