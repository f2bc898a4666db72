------------------------------ MODULE CmdString ------------------------------
(***************************************************************************)
(* The command strings of a program and the tasks that walk them: parse_cmd *)
(* (utils.c) and the loops of led_run_cmds_task, motor_run_cmds_task and    *)
(* play_notes_task, for one task and its string.                            *)
(*                                                                          *)
(* A string is "code,beats;code,beats;...".  A code word is one symbol here *)
(* ("RB" stands for the three blinking colours, "do" for every note); the   *)
(* separators and the digits are characters.  Time is counted in FreeRTOS   *)
(* ticks.  The queue of the strip is assumed to have room, so that handing  *)
(* over a frame takes no time.                                              *)
(***************************************************************************)
EXTENDS Naturals, Sequences, SequencesExt, FiniteSetsExt

CONSTANTS
  Inputs,     \* the strings that may arrive, as sequences of symbols
  Walkers,    \* the tasks that walk them
  ShortRests  \* the beat counts that, as a double times 0.6, come out below a whole
              \* number: 3, 6, 9, 12, 18, 23, 24 and more

ASSUME StringAssumption ==
  /\ Inputs \subseteq Seq(STRING)
  /\ Walkers \subseteq {"led", "motor", "notes"}
  /\ ShortRests \subseteq Nat \ {0}

VARIABLES
  kind,      \* the task that walks the string
  str,       \* the string
  cmds,      \* offset of the char *cmds from the start of the string
  task_run,  \* handle->task_run
  pc,
  cmd,       \* the command in hand: code and beatCnt
  ticks,     \* time spent on commands
  done       \* history: the commands carried out

vars == <<kind, str, cmds, task_run, pc, cmd, ticks, done>>

Comma == ","
Semicolon == ";"

Digit == [c \in {"0", "1", "2", "3", "4", "5", "6", "7", "8", "9"} |->
            CASE c = "0" -> 0 [] c = "1" -> 1 [] c = "2" -> 2 [] c = "3" -> 3 [] c = "4" -> 4
              [] c = "5" -> 5 [] c = "6" -> 6 [] c = "7" -> 7 [] c = "8" -> 8 [] c = "9" -> 9]

\* The digits at the start of s, and the number they stand for.
Digits(s) ==
  SubSeq(s, 1, Max({i \in 0 .. Len(s) : \A j \in 1 .. i : s[j] \in DOMAIN Digit}))

Number(d) ==
  LET value[i \in 0 .. Len(d)] ==
        IF i = 0 THEN 0 ELSE 10 * value[i - 1] + Digit[d[i]]
  IN  value[Len(d)]

\* atoi: 0 when there is no number.  (No sign, no blanks, and the counts of
\* beats are small enough for an int of milliseconds.)
Atoi(s) == Number(Digits(s))

First(s, c) == SelectInSeq(s, LAMBDA x : x = c)

Malformed == [next |-> 0]

\* Mutant: a string without a semicolon is taken to end in one.
ParseUnterminated(s) ==
  LET comma == First(s, Comma)
      semicolon == IF First(s, Semicolon) = 0 THEN Len(s) + 1 ELSE First(s, Semicolon)
  IN  IF comma <= 1 \/ semicolon <= 1 \/ comma >= semicolon THEN Malformed
      ELSE [next |-> semicolon, code |-> SubSeq(s, 1, comma - 1),
            beat |-> Atoi(SubSeq(s, comma + 1, Len(s)))]

\* The first comma and the first semicolon of what is left of the string: both
\* there, neither at its start, the comma first.
parse_cmd(s) ==
  LET comma == First(s, Comma)
      semicolon == First(s, Semicolon)
  IN  IF comma <= 1 \/ semicolon <= 1 \/ comma >= semicolon THEN Malformed
      ELSE [next |-> semicolon, code |-> SubSeq(s, 1, comma - 1),
            beat |-> Atoi(SubSeq(s, comma + 1, Len(s)))]

(***************************************************************************)
(* How long a command takes, in ticks of 10 ms (CONFIG_FREERTOS_HZ 100).    *)
(***************************************************************************)
pdMS_TO_TICKS(ms) == (ms * 100) \div 1000

\* float delaytime = beatCnt * BEAT_DURATION * 1000;
Beats(n) == pdMS_TO_TICKS(600 * n)

\* The rests of the note string: the product is a double and is truncated, for some
\* counts to one below the whole number of milliseconds.
RestBeats(n) == pdMS_TO_TICKS(IF n \in ShortRests THEN 600 * n - 1 ELSE 600 * n)

\* A note: 12 buffers of 800 samples for each beat, at 16 kHz.
NoteBeats(n) == n * 12 * pdMS_TO_TICKS(50)

\* led_blink(..., 6*beatCnt) and led_chase(beatCnt), four LEDs.
Blink(n) == 6 * n * (pdMS_TO_TICKS(50) + pdMS_TO_TICKS(50))
Chase(n) == n * 4 * (pdMS_TO_TICKS(75) + pdMS_TO_TICKS(75))

\* Mutant: the blinking colours are delayed for outside as well.
LedDurationTwice(c) ==
  CASE c.code = <<"RB">> -> Blink(c.beat) + Beats(c.beat)
    [] c.code = <<"Chase">> -> Chase(c.beat)
    [] OTHER -> Beats(c.beat)

\* led_cmd2data and the delay outside, which blinking and chase do without.  An
\* unknown code shows white.
LedDuration(c) ==
  CASE c.code = <<"RB">> -> Blink(c.beat)
    [] c.code = <<"Chase">> -> Chase(c.beat)
    [] OTHER -> Beats(c.beat)

\* "NO", and what note_to_freq does not know, is a rest.
NotesDuration(c) ==
  IF Head(c.code) = "do" THEN NoteBeats(c.beat) ELSE RestBeats(c.beat)

Duration(c) ==
  CASE kind = "led" -> LedDuration(c)
    [] kind = "notes" -> NotesDuration(c)
    [] kind = "motor" -> Beats(c.beat)

(***************************************************************************)
(* The task.                                                                *)
(***************************************************************************)
Init ==
  /\ kind \in Walkers
  /\ str \in Inputs
  /\ cmds = 0
  /\ task_run = TRUE
  /\ pc = "loop"
  /\ cmd = Malformed
  /\ ticks = 0
  /\ done = <<>>

Rest == SubSeq(str, cmds + 1, Len(str))

\* Mutant: a malformed command does not end the loop.
LeaveAtEnd ==
  /\ pc = "loop"
  /\ Rest = <<>> \/ ~task_run
  /\ pc' = "end"
  /\ UNCHANGED <<kind, str, cmds, task_run, cmd, ticks, done>>

\* while (*cmds) { if (!task_run) break; ... if (next_cmd_pos < 0) break; }
Leave ==
  /\ pc = "loop"
  /\ Rest = <<>> \/ ~task_run \/ parse_cmd(Rest) = Malformed
  /\ pc' = "end"
  /\ UNCHANGED <<kind, str, cmds, task_run, cmd, ticks, done>>

\* Mutant: the semicolon is not skipped.
TakeCmdShort ==
  /\ pc = "loop"
  /\ Rest # <<>> /\ task_run
  /\ cmd' = parse_cmd(Rest)
  /\ cmd' # Malformed
  /\ cmds' = cmds + cmd'.next - 1
  /\ pc' = "perform"
  /\ UNCHANGED <<kind, str, task_run, ticks, done>>

\* Mutant: cmds is not moved on.
TakeCmdAgain ==
  /\ pc = "loop"
  /\ Rest # <<>> /\ task_run
  /\ cmd' = parse_cmd(Rest)
  /\ cmd' # Malformed
  /\ pc' = "perform"
  /\ UNCHANGED <<kind, str, cmds, task_run, ticks, done>>

\* next_cmd_pos = parse_cmd(cmds, code, &beatCnt); cmds += next_cmd_pos + 1;
TakeCmd ==
  /\ pc = "loop"
  /\ Rest # <<>> /\ task_run
  /\ cmd' = parse_cmd(Rest)
  /\ cmd' # Malformed
  /\ cmds' = cmds + cmd'.next
  /\ pc' = "perform"
  /\ UNCHANGED <<kind, str, task_run, ticks, done>>

\* The command and its delay.
Perform ==
  /\ pc = "perform"
  /\ ticks' = ticks + Duration(cmd)
  /\ done' = Append(done, cmd)
  /\ pc' = "loop"
  /\ UNCHANGED <<kind, str, cmds, task_run, cmd>>

\* The end of the task: led_on() or car_stop(), task_run = false.
End ==
  /\ pc = "end"
  /\ pc' = IF task_run THEN "played" ELSE "stopped"
  /\ task_run' = FALSE
  /\ UNCHANGED <<kind, str, cmds, cmd, ticks, done>>

\* xxx_stop on another thread.
StopTask ==
  /\ pc \in {"loop", "perform", "end"}
  /\ task_run
  /\ task_run' = FALSE
  /\ UNCHANGED <<kind, str, cmds, pc, cmd, ticks, done>>

Walk == Leave \/ TakeCmd \/ Perform \/ End

Ended == pc \in {"played", "stopped"} /\ UNCHANGED vars

Next == Walk \/ StopTask \/ Ended

Spec == Init /\ [][Next]_vars /\ WF_vars(Walk)

(***************************************************************************)
(* What a string means, by itself: it is cut at its semicolons, and the     *)
(* pieces up to the first one that is not "code,beats" are its commands.    *)
(***************************************************************************)
Ends(s) == {i \in 1 .. Len(s) : s[i] = Semicolon}

EndsUpTo(s, i) == {j \in Ends(s) : j <= i}

\* Where the k-th piece ends.
Cut(s, k) == IF k = 0 THEN 0 ELSE CHOOSE i \in Ends(s) : Cardinality(EndsUpTo(s, i)) = k

Pieces(s) ==
  [k \in 1 .. Cardinality(Ends(s)) |-> SubSeq(s, Cut(s, k - 1) + 1, Cut(s, k) - 1)]

IsCommand(p) == p # <<>> /\ p[1] # Comma /\ \E i \in DOMAIN p : p[i] = Comma

Meaning(p) ==
  LET i == CHOOSE i \in DOMAIN p : p[i] = Comma /\ \A j \in 1 .. i - 1 : p[j] # Comma
  IN  <<SubSeq(p, 1, i - 1), Atoi(SubSeq(p, i + 1, Len(p)))>>

Commands(s) ==
  LET p == Pieces(s)
      n == Max({k \in 0 .. Len(p) : \A i \in 1 .. k : IsCommand(p[i])})
  IN  [i \in 1 .. n |-> Meaning(p[i])]

Carried == [i \in DOMAIN done |-> <<done[i].code, done[i].beat>>]

\* For every string, also malformed and cut off ones, the task carries out the
\* commands of the string in their order, all of them unless it is stopped.
CarriesOutString ==
  /\ IsPrefix(Carried, Commands(str))
  /\ pc = "played" => Carried = Commands(str)

\* The pointer never passes the end of the string.
StaysInString == cmds <= Len(str)

SumOf(s) ==
  LET sum[i \in 0 .. Len(s)] == IF i = 0 THEN 0 ELSE sum[i - 1] + s[i]
  IN  sum[Len(s)]

Nominal == SumOf([i \in DOMAIN done |-> 60 * done[i].beat])

\* What a task runs ahead of its beats: 40 ms for each beat of a chase, whose 75 ms
\* are cut to 7 ticks, and 10 ms for a rest of the notes that is truncated.
Early(c) ==
  CASE kind = "led" /\ c.code = <<"Chase">> -> 4 * c.beat
    [] kind = "notes" /\ Head(c.code) # "do" /\ c.beat \in ShortRests -> 1
    [] OTHER -> 0

Ahead == SumOf([i \in DOMAIN done |-> Early(done[i])])

\* The three strings of a program stay in step, beat by beat, whatever codes they
\* use, except for chases and truncated rests.
KeepsTheBeat == ticks = Nominal - Ahead

\* A bound on the steps the walk still has to make.
StepsLeft ==
  Len(str) - cmds + (CASE pc = "loop" -> 2 [] pc = "perform" -> 3 [] pc = "end" -> 1
                       [] pc \in {"played", "stopped"} -> 0)

\* Whatever the string, every step of the task brings it closer to its end: parse_cmd
\* never hands back a position that lets the loop come round to the same place.
WalkAdvances == [][pc' # pc => StepsLeft' < StepsLeft /\ StepsLeft' >= 0]_vars

\* Every string is walked to an end.
WalkEnds == <>(pc \in {"played", "stopped"})
=============================================================================
