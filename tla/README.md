# Models of the ESP32 car firmware

The firmware (src/main) runs on an ESP32-C3: a Wi-Fi access point, a UCP server that receives JSON
messages, two motors, a strip of four LEDs and an I2S speaker. It is written as FreeRTOS tasks that
talk through global handles, event bits, queues and one mutex. These modules model the tasks and the
protocols between them; TLC checks small instances and TLAPS proves the main invariants for every
instance.

## 1. Inventory

| Part | State | Operations | Interacts with |
|---|---|---|---|
| Task handle (sound.c, drv8833_pwm.c, led_strip.c; four copies of one template) | `task_run`, `BIT0` of `state_event`, `args` | `xxx_run`, `xxx_stop`, `xxx_wait_for_stop`, the end of the task | caller and task share the handle without a lock |
| Note player, mp3 player (sound.c) | `g_i2s_mutex`, `tx_chan`, `g_i2s_data_buffer` | `play_notes_task`, `sound_play_mp3_task` | share channel, buffer and mutex |
| Command programs (handle_message.c) | `run_cmds_is_run`, `run_cmds_root`, `r_v1` ... `r_v4` | `run_cmds`, `run_cmds_one_time_cb`, `run_cmds_task`, C_CMDS, C_STOP | starts notes, motor and LED tasks; called back by the LED task |
| Motor task and driver (drv8833_pwm.c) | handle, LEDC duties, `g_is_motorA_run`, `g_is_motorB_run`, enable pin | `motor_run_cmds_task`, `car_*`, `drv8833_motor*` | driven by the motor task and by M_RUN / M_STOP |
| LED task and renderer (led_strip.c) | handle, `in_queue` (3 frames), `led_strip_pixels` | `led_run_cmds_task`, `led_strip_fill_data`, `led_strip_renderer_task` | fed by the LED task, the status LED task and the audio converter |
| Audio to light (audio_convert.c) | `in_queue` (3 pointers), static sample buffer | `audio_convert_mp3_data_cb`, `audio_convert_task` | called by the mp3 task, feeds the renderer |
| Mp3 source (my_play_mp3.c) | `file_marker`, `next_music_file`, the ADF pipeline | `play_mp3_start_pipeline`, `mp3_music_read_cb`, `play_mp3_read_buffer` | called by the mp3 task; the decoder calls back |
| Message dispatch (handle_message.c, my_ucp.c) | receive buffer, `last_key` | `handle_message`, `ucp_server_rcv_thread` | calls everything above |
| Status LED (main.c) | `g_sys_vol` | `app_led_task`, `get_sys_bat_level` | polls `is_sound_play_run`, `is_motor_run`, `ucp_get_conn_state`; frames to the strip |
| Start-up (main.c, my_wifi.c, my_ucp.c) | which parts are set up; the NVS partition | `app_main`, `wifi_event_handler`, `my_ucp_init` | the AP_START event starts the receive thread while `app_main` goes on |
| Parser (utils.c) | none | `parse_cmd` | called by the note, motor and LED tasks |
| GPIO (my_gpio.c), ADC (my_adc.c), BLE (bt_gatts.c, not started) | configuration | set-up functions | start-up |

What is hard here: every task may be preempted between any two accesses to a handle; a stop waits
with a time limit for an answer that may be given before the question, too late, or never; a task
that outlasts the wait keeps running next to its successor; the strings a task reads belong to a
message that another thread frees. The list with line numbers is under `hazards` in PROJECT.json.

What makes each part correct:

* **Task handle**: a call to `xxx_run` or `xxx_stop` returns; a flag that says "running" is backed by
  a task that will clear it.
* **Players**: no `ESP_ERROR_CHECK` fires, the sample buffer has one user, the channel is not left on,
  the mutex comes back.
* **Command programs**: a program marked running has its tree; a one-shot program ends, a looped one
  goes on, a stopped one stays stopped; the motors stand when no task drives them.
* **Motor driver**: when all writers are done, the motors do what the last message said; a message
  with a speed out of range does no harm beyond its successor.
* **LED strip, audio to light**: frames and samples may be lost, but not reordered, and the last one
  wins.
* **Command strings**: a task does exactly the commands of its string, stays inside it, and the three
  strings of a program stay in step.
* **Mp3 source**: a session plays its own file, all of it and nothing of the file before; the songs
  come in turn.
* **Start-up, status LED**: the tasks find the parts they use; the car comes up after failing calls and
  resets; the status task shows the state and leaves the strip to the music.

## 2. Modules and the code

| Module | Code | Extends |
|---|---|---|
| `TaskHandle` | the run / stop / wait functions shared by the four workers | |
| `SoundTasks` | `play_notes_task`, `sound_play_mp3_task`, mutex, I2S channel, buffer | `TaskHandle` |
| `I2sChannel` | abstract: what the players promise each other about the channel | implemented by `SoundTasks` |
| `CmdRunner` | `handle_message` (C_CMDS, C_STOP), `run_cmds`, `run_cmds_task`, motor, LED and note task bodies | `TaskHandle` |
| `CmdString` | `parse_cmd` and the loops of the three tasks over their strings, with durations | |
| `MotorDriver` | `drv8833_motor*`, `car_*`, M_RUN, M_STOP | |
| `LedStrip` | `led_strip_fill_data`, `led_strip_renderer_task`, the RMT channel | |
| `Display` | abstract: what `led_strip_fill_data` promises its callers | implemented by `LedStrip` |
| `AudioConvert` | `audio_convert_mp3_data_cb`, `audio_convert_task`, composed with the strip | `LedStrip` |
| `Mp3Source` | my_play_mp3.c, the keys of M_RUN, S_PLAY, the reading side of `sound_play_mp3_task` | |
| `StatusLed` | `app_led_task`, `get_sys_bat_level` | |
| `StartUp` | `app_main`, the access point event, `my_ucp_init`, early messages, resets, composed with the status LED | `StatusLed` |
| `...Proofs` | theorems about the module of the same name (`LightsProofs`: `LedStrip`, `AudioConvert`) | that module |
| `MC...` | instances for TLC | that module |

**Granularity.** The scheduler is preemptive with time slicing between tasks of equal priority, so a
step is one access to shared state: one read or write of `task_run`, one event group or queue call,
one register write. Local computation belongs to the step before or after it.

**TaskHandle.** `task_run`, `bit0`, `args` are the fields of the handle, one per worker. `call[c]` is
the run or stop call that thread `c` is in: the worker, the argument and the line it is at. A task is
a slot in `TaskIds` with a program counter (`tpc`) and the worker it belongs to (`tkind`). A wait ends
when the bit is set (`SetBits` wakes all waiters) or by `WaitTimeout`. Time itself is not modelled:
`MayTimeOut` says when the limit may pass, namely when no task of that worker is left, when the worker
is in `SlowKinds` (a single step of it may outlast the limit: nine beats of 0.6 s are longer than
5 s), or when another thread has set `task_run` again and the task goes on. For the tasks in
`FailKinds` creation may fail (`CreateFails`): the code does not look at the result, so the flag stays
true without a task. With "runner" in `FailKinds` the creation of `run_cmds_task` may fail too
(`CreateRunnerFails` of `CmdRunner`).

**SoundTasks.** A note string is the number of its commands, an mp3 file the number of its buffers.
`aborted` records that a call would have failed its `ESP_ERROR_CHECK`. The mutex is taken without
waiting: a note task that fails leaves its flag true, an mp3 task clears it. `I2sChannel` says what
the two players owe each other, without tasks, handles or calls: one owner at a time, switched on and
off by the owner only, handed back off. The refinement maps the owner to the holder of the mutex.

**CmdRunner.** `prog[r]` is the content of the cJSON tree `r` of a C_CMDS message, `freed` the trees
given to `cJSON_Delete`. `todo[c]` is the rest of the sequence of run or stop calls that `run_cmds`,
`run_cmds_task` or C_STOP makes. Reading a freed string gives an arbitrary rest of a string
(`ReadFreed`), reading members of a freed tree may fault (`RunnerFault`). The test of `run_cmds_is_run`
and the creation of `run_cmds_task` in the callback are two steps, and so are the test of `r_v1` and
the write of `run_cmds_is_run` in `run_cmds_task`: C_STOP and C_CMDS may come in between. The five writes of
`run_cmds_root` and `r_v1` ... `r_v4` (handle_message.c:72-77) are one step, `LoadRoot`: a
`run_cmds_task` that reads between two of them gets members of the freed tree or of the new one, as it
may before and after the step, and no property tells a mixture apart. `crashed` ends a behaviour:
the configured panic handler reboots, which is `Init`.

**MotorDriver.** A handler is a script of eleven register writes (`DriveScript`, `StopScript`); `job`
says which thread is at which write. `ledc_update_duty` copies the duty register to the output, so it
may put another thread's duty on the wire. `told` remembers the last M_RUN or M_STOP. Motor tasks
start and end freely; `CmdRunner` says when they really do, and its behaviours are among these.
Speeds and directions are any integers, since handle_message.c:105-117 checks nothing and the comment
at drv8833_pwm.c:93 (0 to 100) binds nobody: `Product` wraps at 32 bits (signed overflow is undefined in
C; the compiler's multiplication wraps) and `Duty` rounds towards zero. So duties beyond the 10 bits of the
timer are written; `DutiesRecover` says that they go with the message that brought them.

**LedStrip.** Frames are numbered in the order the queue accepts them. A frame has two halves because
its 96 symbols do not fit the 64 of the RMT memory block: the encoder reads the buffer in two
portions and the renderer may overwrite it in between. What the RMT driver does (up to `TransDepth`
transmissions pending, each encoded from the buffer when its turn comes) is external to the tree and
modelled from how led_strip.c uses it. `Display` is the promise to the callers: no part of the strip
goes back to an older frame or shows one that was not accepted, although two parts may show different
frames.

**AudioConvert.** Samples are numbered by the callback that brought them. A queue entry carries the
number of its call as a history value, and its length; the program only has the length and a pointer to
the one static buffer, written and read in two portions, of which a short call writes and a short entry
reads the first. `LastSamplesSeen` is stated for the part that both have. Frames that
`led_strip_fill_data` discards are not numbered: `StripSettles`, `FramesArrive` and `LightsSettle` are
about the frames accepted.

**CmdString.** A string is a sequence of symbols; a code word is one symbol, separators and digits are
characters. `Commands` defines what a string means by cutting it at its semicolons, without reference
to the walk. Durations are in ticks of 10 ms (CONFIG_FREERTOS_HZ 100), each conversion with the
truncation of the code: the delays of the LED and motor tasks go through a `float`, those of the rests
through a `double` that lies just below the whole number for 3, 6, 9, 12, 18, 23, 24 and more beats
(the constant `ShortRests`, of which the instance has those its strings can ask for; the proofs leave
it open). `Atoi` reads digits; a sign, blanks and counts of beats that overflow an `int` of
milliseconds are left out.

**Mp3Source.** Three threads: rx with the keys and S_PLAY, the mp3 task with the mutex (and those
that try for it), and the decoder of the ESP-ADF, which is not in the tree and is modelled from the
calls made here: it fills the ring buffer from the read callback, waits for room, notices a stop
between two reads. The read callback is two steps (`Measure`, `Copy`), because the marker it uses is
global. `heard` and `songs` are history variables.

**StatusLed, StartUp.** `StatusLed` is the loop of `app_led_task`, one step per frame. `StartUp` runs
the calls of `app_main` one by one; the AP_START event may start the receive thread any time after
`wifi_init_softap`, and a message may come before the parts its handler uses (`Needs`) are set up. Every
call that checks a result may fail (`NvsFails`, `InitFails`), which panics; so does a part used before
it is set up. A panic restarts the chip, as often as it happens, and the power may fail at any step;
either leaves only the flash partition. `failed` and `early` remember, until the next reset, that a call
failed or a message came early. `ComesUp` therefore is conditional: if calls fail in every start, or a
client sends too early in every start, the car need not come up. `shown` is the last frame of the status
task itself, so `ShowsState` does not speak of the frames that an LED program puts in between. The battery
level is always 0, because the body of the task that measures the voltage is commented out (main.c:60):
the yellow and green patterns of the code are modelled and unreachable.

## 3. Runs

| Run | Question | Instance and why it is enough |
|---|---|---|
| `sound` | Do the two players ever abort, share the buffer, leave the channel on or the mp3 flag up? Do they implement `I2sChannel`? Does every call return and every mutex come back? | Two task slots: the winner of the mutex and one that loses it or is just created. Two calling threads; mp3 steps may outlast the wait, creating a note task may fail. |
| `program_motors` | Do the motors stand when no motor task is left? | All three workers, three tasks, motor commands longer than the wait, so that two motor tasks overlap; note tasks and `run_cmds_task` may fail to be created. |
| `program_ends` | Does a running program always have its tree, and does a one-shot program end? | Two messages (the second frees the first), looped, one-shot and incomplete; two LED tasks that may outlast the wait. |
| `program_stops` | Does a looped program go on, and a stopped one end? Can anything start it anew? | Two looped messages with C_STOP at any time; LED tasks that outlast the wait, so that an old one is at its end when C_STOP comes. |
| `command_strings` | Does a task do what its string says, how long does it take, and does each step bring it nearer to its end? | All 1365 strings up to five characters over a code, a digit and the separators; all strings of up to three pieces out of eleven, sound and malformed; the three tasks; a stop at any time. |
| `mp3_source` | Does a session play its own file, all of it, and the songs in turn? | A file shorter than a read, songs longer than a read and than the ring buffer, an id out of range, two tasks waiting for the mutex. The counter goes round all five songs. |
| `start_up` | Does the car come up, what can panic, and what does the LED show? | Two power failures at any step, any number of failing calls and panics, both states of the partition, the ten flashes of the code. |
| `motor_registers` | Do the motors do what the last message said once all writers are done? What becomes of a speed out of range? | The receive thread and two motor tasks, 33 writes interleaved; the message of M_RUN has one motor off, so that both values of the flags occur, and the other at a speed whose product wraps; M_STOP follows or precedes it. |
| `music_lights` | Are samples and frames taken in order (`Display`) and does the last one win? | The queue and the transmission depth of the strip as in the code (3, 4), a converter queue of two; three calls with whole or short buffers and five frames fill all of them, and either queue may overflow. The proofs are for any sizes. |
| `v_use_after_free`, `v_runner_returns`, `v_stop_terminates` | What a comment says and the code does not do | See section 6. |

`TaskIds`, `Tasks` and `Runners` bound the tasks alive at one time, `RootIds` the C_CMDS messages of a
behaviour, `MaxLen` and `MaxBuf` the lengths of strings and files, `MaxFrames`, `MaxCalls` and
`OtherFrames` the frames and calls, `MaxShort` and `MaxPieces` the strings, `MaxNew` the mp3 tasks
that have yet to try the mutex, `MaxResets` the power failures. Task slots are interchangeable, which
runs of invariants alone use as a symmetry; runs with temporal properties do not. `music_lights` does
not check for deadlock: with all calls used up and the strip at rest nothing is left to do.

**Fairness.** Tasks of equal priority are time sliced, so a thread that can take a step takes one in
the end: weak fairness of each thread and task. Messages need not come, the callback need not be
called again: no fairness. In `CmdRunner` creating a task and a `run_cmds_task` is strongly fair,
because `xTaskCreate` does not wait for a slot; the slots are bounds of the model and a thread must
not starve for them. The RMT channel is hardware with interrupts and weakly fair. In `Mp3Source` the
player, the decoder and the wait of rx (by its limit) go on; in `StartUp` `app_main` and the LED task
do, and a panic restarts the chip (CONFIG_ESP_SYSTEM_PANIC_PRINT_REBOOT).

`StopIsFinal` needs care: `v_stop_terminates` shows that tasks may be running when C_STOP has
returned. The property says that they end all the same, because the LED task among them finds
`run_cmds_is_run` cleared and creates no further `run_cmds_task`. `NoRevival` is its safety half: from
C_STOP on the threads that may still start a worker (`Starters`) only get fewer. A `run_cmds_task` may
still be created, by an LED task that has tested `run_cmds_is_run` before C_STOP cleared it, but it does
not get past its own test.

## 4. Proofs

TLAPS checks the following for every value of the constants that meets the named assumptions
(`HandleAssumption`, `SoundAssumption`, `RunnerAssumption`, `StringAssumption`, `DriverAssumption`,
`StripAssumption`, `ConvertAssumption`, `SourceAssumption`, `StatusAssumption`, `StartUpAssumption`),
so for any number of tasks, threads, messages and frames, any string, any speeds and any queue length.
Every invariant and every action property of the passing runs is the statement of a theorem, and so
are the two refinements; the types of `MotorDriver` are a conjunct of its invariant `DInv`.

* **SoundTasksProofs**: `TypeCorrect`, `NeverAborts`, `ExclusiveBuffer`, `ChannelOff`, `HonestFlag`,
  `ChannelImplemented`. `NoAbort` is not inductive: that an enable finds the channel off depends on
  who holds the mutex. The invariant `IInv` adds that exactly the task between its take and its give
  holds the mutex (`MutexHeld`), that the channel is on exactly while a task is between enable and
  disable (`EnabledByOne`), that a created task finds its argument (`ArgsSet`) and that only the
  receive thread starts mp3 files (`Mp3OnlyFromRx`), which `Mp3FlagHonest` needs: with two threads
  starting files, one could clear the flag of the other. It also needs that creating an mp3 task does
  not fail. `ChannelImplemented` is the refinement: under `IInv` every step of a task is a step of
  `I2sChannel` or leaves owner and channel alone.
* **TaskHandleProofs**: lemmas on types and frames of the calls, used by the two modules on top.
* **CmdRunnerProofs**: `RunningTree` from `TreeInv`: freed and current trees have been parsed, so a
  new tree is none of them, and while the receive thread is inside `run_cmds` nothing is marked
  running, so nothing that runs is freed. `MotorsStop` from `MotorInv`. `RunnerTypes` from `TypeInv`:
  types alone are not inductive, since the command count of a task is read through `handle->args` and
  the loop flag through `run_cmds_root`. `HandedOver` adds what is needed: before the first tree
  nobody has a run call to make or is past the test of `run_cmds_task`, every string handed over was
  parsed, and `handle->args` is set before a task of that worker exists. The lists of calls are
  suffixes of `StartAll` and `StopAll`, by lemmas on sequences (`TodoLists`, `SuffixTail`,
  `TodoType`). `NoneRevived` is an action property, from `TypeInv` and `StopInv` (a stopped program is
  not marked running, and the receive thread is not inside `run_cmds`), with a lemma for each kind of
  thread: a caller begins only the run calls on its list, a `run_cmds_task` stays in front of its
  test, a task makes no calls.
* **CmdStringProofs**: `PointerInString`, `StringCarriedOut`, `StringsInStep`, `WalkShrinks`, for
  every string. The argument: the pointer is always at the start of the string or at the end of a
  piece, and what is done are the meanings of the pieces before it (`WalkInv`). `NextCommand` relates
  one call of `parse_cmd`, which looks for the first comma and semicolon of the rest, to the
  definition of `Commands`, which cuts the whole string: the call succeeds exactly if the next piece
  is a command, and then returns its meaning and its length. `StringsInStep` adds the durations up;
  `WalkShrinks` shows that `StepsLeft` decreases, which is the reason why `WalkEnds` holds. Sums and
  `Atoi` are recursive functions. The induction they need is done on sets: a set of naturals that is
  not empty has a least element (`Least`), and a counterexample set without one is empty
  (`Induction`).
* **MotorDriverProofs**: `CarObeys` and `WildSpeedsPass`. `Obeyed` follows the script write by write:
  while the driver is on and no motor task exists, what M_RUN has written so far is still in place
  (`Written`). A motor task may overwrite it, but then it is alive, and the last thing it does is to
  clear the enable pin. For `WildSpeedsPass` the invariant `RInv` adds that motor tasks ask for speeds
  of 0 to 100 only (`Modest`), and that every register rx has been at since it took up its message
  (`Due`) is in range or as the message asks (`Asked`); an output copies its duty register, which rx
  has been at before.
* **LightsProofs**, the strip: `StripRests`, `DisplayImplemented` (the refinement of `Display`),
  `StripTypes`. The invariant says that the last frame accepted is the last in the queue or in the
  buffer (`LastAccepted`), that queue and buffer are ordered (`InOrder`), that wire and strip are
  behind the buffer (`Behind`), and that the last pending transmission sends the buffer as it is
  (`LastSendsBuffer`).
* **LightsProofs**, the music: `StripPart` shows by step simulation that the composition implements
  `StripSpec`, so `LightsRest` follows from `StripRests` and `DisplayImplemented`. `FreshSamples` and
  `LastSeen` rest on `EntriesBehind` (the shared buffer is never older than what an entry stands for)
  and `SamplesReached` (a discarded pointer does no harm, as a full queue holds one that leads to the
  same buffer).
* **Mp3SourceProofs**: `ReadsInFile`, `OwnFile`, `WholeFile` from `SourceInv`: while the pipeline is
  set up anew the decoder is at rest (`AtRest`), so the marker never moves between the two halves of a
  read (`InFile`); within a session what was heard, the ring buffer and the decoder's chunk are the
  file up to the marker, one behind the other (`Flow`). `SongsInTurn` is an action property, from
  `SongsInv`: the songs remembered follow one another and end in the counter.
* **StartUpProofs**: `OrderSound` from `OrderInv` (the calls done so far are set up, the LED task
  exists only after the strip, samples without the strip only after an early message; a failed call
  panics at once) and `MusicWins` from `YieldInv` (frames shown over the music and frames left of the
  pattern are one pattern together).

Only model-checked: the liveness properties (`CallReturns`, `MutexReleased`, `OneShotEnds`,
`LoopGoesOn`, `StopIsFinal`, `FramesArrive`, `LightsSettle`, `WalkEnds`, `SessionEnds`, `ComesUp`,
`ShowsState`). They rest on fairness, and the installed provers do not reason about `ENABLED`. The
three properties of section 6 are violated, so there is nothing to prove.

## 5. Results that hold

The mutex makes the players safe whatever the handles do: time-outs, lost answers and left-over tasks
never lead to an abort. The handle protocol loses answers (the bit is cleared after the task has set
it), and only the time limits of the waits keep the receive thread alive: with an unlimited wait
`CallReturns` fails. The same limits make a failing `xTaskCreate` harmless for the receive thread,
whose next stop waits in vain for 5 s. The LED strip and the audio converter share buffers without a
lock, and the models show why that is harmless: every reader comes back to the buffer after the last
writer.

Stopping a session leaves the decoder at work and the ring buffer full; that the next one is clean
depends on the order of `play_mp3_start_pipeline`: wait for the stop, empty the ring buffer, and only
then move the marker.

The strings of a program stay in step beat by beat with two exceptions that `KeepsTheBeat` pins down:
a chase is 40 ms per beat short, since its delays of 75 ms are cut to 7 ticks, and some rests, of 3, 6
or 9 beats for example, lose one tick. A looped program is restarted by its LED string and so does not
drift from round to round.

Two statements about colours are not modelled but were met on the way: handle_message.h names the chase
command "C", the code knows "Chase" and shows white for "C"; and the status LED always flashes red when
the motors stand, because the battery voltage is never read.

## 6. Where code and comments disagree

* `v_use_after_free`: after a one-shot program whose LED string is the shortest, the next C_CMDS frees
  the tree while the motor and note tasks still read it.
* `v_runner_returns`: C_STOP between the creation and the first instruction of `run_cmds_task` makes
  the task function return.
* `v_stop_terminates`: a `run_cmds_task` past its check starts the tasks again behind C_STOP.

## 7. Not modelled, and the plan

Not modelled, because nothing of it can happen in this firmware:

* The BLE GATT server (bt_gatts.c): `bt_gatts_init_and_run` is commented out in `app_main`
  (main.c:145), so none of its callbacks is ever registered.
* Station mode and mDNS (`wifi_init_sta`), `led_strip_renderer_stop`, `audio_convert_stop`,
  `play_mp3_deinit`: no caller.
* The speed counter task (my_gpio.c): the interrupt no longer sends to its queue (my_gpio.c:24). The
  heart beat task toggles three pins that nothing else reads. `adc_get_voltage` is not called.

Not modelled, because it is not the firmware's own logic: managed_components (esp-dsp,
jsmn, mdns, nghttp), which are vendored libraries and make up almost all lines of the tree;
FreeRTOS, ESP-IDF, ESP-ADF and the loudness library; the UCP transport (a submodule that is not in the
tree). Of src/main, the parts with state and control are modelled.

Not modelled, because it is arithmetic that no property tells apart: colours (esp_color.c, hsv2rgb),
the waveform of a note (floating point), GPIO and ADC configuration. The length of a code word, which
parse_cmd copies into an array of 4 or 16 bytes, is abstracted with the word.

Next:

1. Decreasing measures for the other liveness properties, in the way of `WalkAdvances`: the session of
   `Mp3Source`, the pattern of `StatusLed`.
2. Composition of `CmdRunner` with `MotorDriver` in place of `moving`.
3. A theorem that `Mp3Source` implements the mp3 side of `SoundTasks` (a file as a number of buffers).
