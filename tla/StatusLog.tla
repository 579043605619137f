------------------------------ MODULE StatusLog ------------------------------
(***************************************************************************)
(* The status of the capture chip (videoc_log_status of edid.c): the       *)
(* driver is asked to log it, and it is then searched for in the kernel    *)
(* log, where it stands among the messages of everybody else and, maybe,   *)
(* the status of earlier calls.                                            *)
(*                                                                         *)
(* The log is a sequence of records of two tokens, a level and a text.     *)
(* The driver and the kernel log are the kernel's: a record of somebody    *)
(* else may come between any two, and klogctl returns the newest records   *)
(* that fit its buffer.  Calls exclude each other (cgoLock).               *)
(***************************************************************************)
EXTENDS Naturals, Sequences

CONSTANTS Window   \* records that fit buf

Levels == {"<4>", "<6>"}
Blank == "blanks"   \* three of them
NULL == <<"NULL">>
Report == <<"START_STATUS", "status", "END_STATUS">>

VARIABLES
  native,   \* the native process runs (shared with the host display)
  klog,     \* the kernel log
  status,   \* the call: where it is, and what the driver has still to log
  answer    \* what the last call returned

vars == <<native, klog, status, answer>>

----------------------------------------------------------------------------
(* videoc_log_status. *)

\* klogctl(3): the end of the log.
Newest == IF Len(klog) <= 2 * Window THEN klog
          ELSE SubSeq(klog, Len(klog) - 2 * Window + 1, Len(klog))

Starts(buf) == {i \in DOMAIN buf : buf[i] = "START_STATUS"}

\* Mutant: the first status in the buffer.
FirstStart(buf) == CHOOSE i \in Starts(buf) : \A j \in Starts(buf) : i <= j
\* The loop over strstr ends at the last one.
LastStart(buf) == CHOOSE i \in Starts(buf) : \A j \in Starts(buf) : j <= i

\* Back to the character that opens a level, or to the beginning.
LineStart(buf, i) ==
  CHOOSE j \in 1 .. i : /\ j = 1 \/ buf[j] \in Levels
                        /\ \A k \in j + 1 .. i : buf[k] \notin Levels

Blanked(buf) == [i \in DOMAIN buf |-> IF buf[i] = "<6>" THEN Blank ELSE buf[i]]

Extract(buf) ==
  IF Starts(buf) = {} THEN buf
  ELSE Blanked(SubSeq(buf, LineStart(buf, LastStart(buf)), Len(buf)))

Idle == [pc |-> "idle", left |-> <<>>]
Return(text) == status' = Idle /\ answer' = text

rpcGetVideoLogStatus ==
  /\ status.pc = "idle"
  /\ status' = [pc |-> "ask", left |-> Report] /\ answer' = NULL
  /\ UNCHANGED <<native, klog>>

\* open and ioctl; a process that is gone answers nothing.
Ask ==
  /\ status.pc = "ask"
  /\ \/ native /\ status' = [status EXCEPT !.pc = "log"] /\ UNCHANGED answer
     \/ Return(NULL)
  /\ UNCHANGED <<native, klog>>

\* The driver, within the ioctl, which ends also when its caller was killed.
DriverLogs ==
  /\ status.pc \in {"log", "killed"} /\ status.left # <<>>
  /\ klog' = klog \o <<"<6>", Head(status.left)>>
  /\ status' = [status EXCEPT !.left = Tail(@)]
  /\ UNCHANGED <<native, answer>>

Read ==
  /\ status.pc \in {"log", "killed"} /\ status.left = <<>>
  /\ Return(NULL) \/ (status.pc = "log" /\ Return(Extract(Newest)))
  /\ UNCHANGED <<native, klog>>

\* The process dies: what it had asked for has no answer.
Killed == status' = [status EXCEPT !.pc = IF @ = "log" THEN "killed" ELSE @]

\* Anybody else in the kernel.
Message(level) ==
  /\ klog' = klog \o <<level, "message">>
  /\ UNCHANGED <<native, status, answer>>

----------------------------------------------------------------------------
Init == klog = <<>> /\ status = Idle /\ answer = NULL

Stimulus == rpcGetVideoLogStatus \/ \E level \in Levels : Message(level)
Step == Ask \/ DriverLogs \/ Read

----------------------------------------------------------------------------
(* Properties. *)

\* Every variable has its type.
TypeOK ==
  /\ status.pc \in {"idle", "ask", "log", "killed"}
  /\ \A i \in DOMAIN klog : klog[i] \in (IF i % 2 = 1 THEN Levels
                                         ELSE {Report[j] : j \in DOMAIN Report} \cup {"message"})

Rest == status.pc = "idle"

\* The driver's texts are in an answer once each, in the order of its report.
OneReport(text) ==
  /\ \A n \in DOMAIN Report : \E i \in DOMAIN text : \A j \in DOMAIN text :
       text[j] = Report[n] <=> j = i
  /\ \A n, m \in DOMAIN Report : \A i, j \in DOMAIN text :
       text[i] = Report[n] /\ text[j] = Report[m] /\ n < m => i < j

\* An answer is one status, the one the call asked for, whole and from the
\* beginning of its line, with the level of every record of the driver taken
\* off; or, when too much was logged meanwhile, the log as it is, without the
\* beginning of any status.
StatusWhole ==
  answer # NULL =>
    IF Starts(answer) = {} THEN Len(answer) = 2 * Window
    ELSE /\ OneReport(answer)
         /\ answer[2] = "START_STATUS" /\ answer[1] = Blank
         /\ \A i \in DOMAIN answer : answer[i] # "<6>"
============================================================================
