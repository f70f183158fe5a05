----------------------------- MODULE StatusLine -----------------------------
(***************************************************************************)
(* verilate/vsrc/common.cpp: what is printed, and the thread that prints   *)
(* the status line while a test runs.  Every test of run_test starts a     *)
(* ThreadWorker and stops it at its end; the thread is detached and looks  *)
(* at its flag once in a while, so that threads of earlier tests are still *)
(* about when the next ones print.  The main thread prints lines, takes    *)
(* the characters of a UART, or reports an assertion that failed, line by  *)
(* line and the line of its message in pieces.                             *)
(***************************************************************************)
EXTENDS Naturals, Sequences

CONSTANTS
  Worker,      \* threads that may be alive at a time
  NoThread,    \* the lock is free
  MaxPrints,   \* bound: lines and characters a test prints
  MaxBuffer    \* LOG_MAX_BUFFER_SIZE

StatusLineAssumption ==
  /\ NoThread \notin Worker \cup {"main"}
  /\ MaxPrints \in Nat /\ MaxBuffer \in Nat \ {0}

VARIABLES
  main,            \* where the main thread is: "idle" between tests, "test",
                   \* "message", "char" (it waits for the lock or has it), in
                   \* the report of an assertion, "abort", "dead"
  uses,            \* what the program prints: "lines", or "chars" of a UART too
  handle,          \* run_test's worker: the thread whose flag it points to, or
                   \* NoThread when it is stopped
  thread,          \* [Worker -> "none", "check", "fn", "enter", "print", "sleep",
                   \* "final"]
  flag,            \* [Worker -> "freed", "run", "stop"]: the bool on the heap
  lock,            \* _ctx.lock
  in_status_line,
  char_buffer,     \* its length
  status_enabled,
  line,            \* the terminal's last line: "empty", "status", "text", the
                   \* "piece" of a report's line, a line "cut" at the buffer's end
  prints,          \* so far
  badFlag,         \* observer: freed memory was used
  overwritten,     \* observer: text was wiped, or stands behind a status line
  covered          \* observer: what has been covered by a status line

threads == <<handle, thread, flag, badFlag>>
terminal == <<in_status_line, char_buffer, line, overwritten, covered>>
vars == <<main, uses, threads, lock, terminal, status_enabled, prints>>

-----------------------------------------------------------------------------
(* ThreadWorker                                                            *)

\* at_interval: the flag is new, the thread is detached.  (The two move
\* operations only hand the flag on to run_test's variable.)
Start(w) ==
  /\ main = "idle" /\ thread[w] = "none"
  /\ main' = "test"
  /\ handle' = w
  /\ thread' = [thread EXCEPT ![w] = "check"]
  /\ flag' = [flag EXCEPT ![w] = "run"]
  /\ UNCHANGED <<uses, badFlag, lock, terminal, status_enabled, prints>>

\* Mutant: the one who stops the thread frees the flag.
StoppedFlagFreed == [flag EXCEPT ![handle] = "freed"]

StoppedFlag == [flag EXCEPT ![handle] = "stop"]

\* The end of run_test: ~ThreadWorker, stop(), with `stopped' set first.
Stop ==
  /\ main = "test" /\ handle # NoThread
  /\ main' = "idle"
  /\ handle' = NoThread
  /\ flag' = StoppedFlag
  /\ badFlag' = (badFlag \/ flag[handle] = "freed")
  /\ UNCHANGED <<uses, thread, lock, terminal, status_enabled, prints>>

\* while (!*ptr)
Check(w) ==
  /\ main # "dead" /\ thread[w] = "check"
  /\ thread' = [thread EXCEPT ![w] = IF flag[w] = "run" THEN "fn" ELSE "final"]
  /\ badFlag' = (badFlag \/ flag[w] = "freed")
  /\ UNCHANGED <<main, uses, handle, flag, lock, terminal, status_enabled, prints>>

\* status_line looks at status_enabled, and only then waits for the lock.
Look(w) ==
  /\ main # "dead" /\ thread[w] = "fn"
  /\ thread' = [thread EXCEPT ![w] = IF status_enabled THEN "enter" ELSE "sleep"]
  /\ UNCHANGED <<main, uses, handle, flag, badFlag, lock, terminal, status_enabled, prints>>

EnterStatus(w) ==
  /\ main # "dead" /\ thread[w] = "enter" /\ lock = NoThread
  /\ lock' = w
  /\ thread' = [thread EXCEPT ![w] = "print"]
  /\ UNCHANGED <<main, uses, handle, flag, badFlag, terminal, status_enabled, prints>>

\* MOVE_TO_FRONT, the status, CLEAR_TO_RIGHT.
PrintStatus(w) ==
  /\ main # "dead" /\ thread[w] = "print"
  /\ thread' = [thread EXCEPT ![w] = "sleep"]
  /\ lock' = NoThread
  /\ in_status_line' = TRUE
  /\ covered' = covered \cup ({line} \ {"empty", "status"})
  /\ line' = "status"
  /\ UNCHANGED <<main, uses, handle, flag, badFlag, char_buffer, overwritten, status_enabled, prints>>

Wake(w) ==
  /\ main # "dead" /\ thread[w] = "sleep"
  /\ thread' = [thread EXCEPT ![w] = "check"]
  /\ UNCHANGED <<main, uses, handle, flag, badFlag, lock, terminal, status_enabled, prints>>

\* final_fn and delete ptr.
Finish(w) ==
  /\ main # "dead" /\ thread[w] = "final"
  /\ thread' = [thread EXCEPT ![w] = "none"]
  /\ flag' = [flag EXCEPT ![w] = "freed"]
  /\ badFlag' = (badFlag \/ flag[w] = "freed")
  /\ UNCHANGED <<main, uses, handle, lock, terminal, status_enabled, prints>>

-----------------------------------------------------------------------------
(* Printing by the main thread.  A line: info, warn, notify, log_debug.    *)
(* The report of an assertion: lines of "header", the message in the three *)
(* calls "opening", "words" and "closing", lines of "notes", to which the  *)
(* handler of SIGABRT adds its own.  The lock is free between the calls.   *)

After ==
  [message |-> {"test"}, header |-> {"header", "opening", "notes"}, opening |-> {"words"},
   words |-> {"closing"}, closing |-> {"notes"}, notes |-> {"notes", "abort"}]

Texts == DOMAIN After

EndsLine == main \notin {"opening", "words"}

\* Mutant: the line is cleared only when status lines are still enabled.
WipesIfEnabled == in_status_line /\ status_enabled

\* check_status_line
Wipes == in_status_line

\* Text goes out, after check_status_line; what it leaves of the last line.
PutText(left) ==
  /\ in_status_line' = (in_status_line /\ ~Wipes)
  /\ overwritten' = (overwritten \/ (IF Wipes THEN line # "status" ELSE line = "status"))
  /\ line' = left
  /\ UNCHANGED covered

Call ==
  /\ main = "test" /\ prints < MaxPrints
  /\ main' \in (IF uses = "lines" THEN {"message"} ELSE {"message", "char"})
  /\ prints' = prints + 1
  /\ UNCHANGED <<uses, threads, lock, terminal, status_enabled>>

\* An assertion fails.
Fail ==
  /\ main = "test" /\ prints < MaxPrints
  /\ main' = "header"
  /\ prints' = prints + 1
  /\ UNCHANGED <<uses, threads, lock, terminal, status_enabled>>

Lock ==
  /\ main \in Texts \cup {"char"} /\ lock = NoThread
  /\ lock' = "main"
  /\ UNCHANGED <<main, uses, threads, terminal, status_enabled, prints>>

\* VPRINT of a line, or of a piece of one.
Message ==
  /\ main \in Texts /\ lock = "main"
  /\ main' \in After[main] /\ lock' = NoThread
  /\ PutText(IF EndsLine THEN "empty" ELSE "piece")
  /\ UNCHANGED <<uses, threads, char_buffer, status_enabled, prints>>

\* notify_char: with status lines, characters wait for the end of their line
\* or of the buffer.
NotifyChar(newline) ==
  /\ main = "char" /\ lock = "main"
  /\ status_enabled
  /\ main' = "test" /\ lock' = NoThread
  /\ IF newline \/ char_buffer + 1 >= MaxBuffer
     THEN char_buffer' = 0 /\ PutText(IF newline THEN "empty" ELSE "cut")
     ELSE /\ char_buffer' = char_buffer + 1
          /\ UNCHANGED <<in_status_line, line, overwritten, covered>>
  /\ UNCHANGED <<uses, threads, status_enabled, prints>>

\* Without status lines they go out one by one, wherever the cursor is.
NotifyCharNow(newline) ==
  /\ main = "char" /\ lock = "main"
  /\ ~status_enabled
  /\ main' = "test" /\ lock' = NoThread
  /\ overwritten' = (overwritten \/ line = "status")
  /\ line' = IF newline THEN "empty" ELSE "text"
  /\ UNCHANGED <<uses, threads, in_status_line, char_buffer, covered, status_enabled, prints>>

\* The end of the process, in the middle of whatever its threads do; the
\* buffer is lost.
Exit ==
  /\ main = "abort"
  /\ main' = "dead"
  /\ UNCHANGED <<uses, threads, lock, terminal, status_enabled, prints>>

\* The end of a STATUS test, or its deferred function after an abort
\* (TestRun), sets the switch without the lock, in the test benches, which
\* have no UART.
DisableStatus ==
  /\ main \in {"test", "abort"} /\ status_enabled /\ uses = "lines"
  /\ status_enabled' = FALSE
  /\ UNCHANGED <<main, uses, threads, lock, terminal, prints>>

\* The next test may switch it on.
EnableStatus ==
  /\ main = "test" /\ uses = "lines"
  /\ status_enabled' = TRUE
  /\ UNCHANGED <<main, uses, threads, lock, terminal, prints>>

Init ==
  /\ main = "idle" /\ uses \in {"lines", "chars"}
  /\ handle = NoThread /\ thread = [w \in Worker |-> "none"]
  /\ flag = [w \in Worker |-> "freed"] /\ badFlag = FALSE
  /\ lock = NoThread
  /\ in_status_line = FALSE /\ char_buffer = 0 /\ line = "empty"
  /\ overwritten = FALSE /\ covered = {}
  /\ status_enabled \in BOOLEAN
  /\ prints = 0

Next ==
  \/ \E w \in Worker :
       \/ Start(w) \/ Check(w) \/ Look(w) \/ EnterStatus(w) \/ PrintStatus(w)
       \/ Wake(w) \/ Finish(w)
  \/ Stop \/ Call \/ Fail \/ Lock \/ Message \/ Exit \/ DisableStatus \/ EnableStatus
  \/ \E newline \in BOOLEAN : NotifyChar(newline) \/ NotifyCharNow(newline)

Spec == Init /\ [][Next]_vars

-----------------------------------------------------------------------------
(* Properties                                                              *)

\* The flag of a thread is allocated once, freed once, by the thread, and
\* nobody reads or writes it later, whenever the test ends (common.cpp:304-382).
FlagLive == ~badFlag

\* Text never ends up behind a status line, and clearing a status line wipes
\* no text, whichever thread prints late or has passed the switch before it
\* was set (common.cpp:167-257).  A status line covers text only where a call
\* leaves its line unfinished: the message of an assertion that has failed,
\* which takes the lock three times for one line (common.h:260-264), and a
\* UART's line that is longer than the buffer (common.cpp:230).
StatusApart ==
  /\ ~overwritten
  /\ covered \subseteq {"piece", "cut"}
  /\ "piece" \in covered => main \in {"words", "closing", "notes", "abort", "dead"}
  /\ "cut" \in covered => uses = "chars" /\ status_enabled
=============================================================================
