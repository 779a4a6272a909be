# Verification of EmbeddedFramework

This directory holds TLA+ models of the concurrent core of EmbeddedFramework: the
hardware abstraction layer `efHal`, the KL46Z board drivers under it and the FreeRTOS
task notifications both are built on. Also modelled are the modules beside them that
share state between tasks, handlers and callbacks: the error handler, the software
timers, the LED sequencer and the accelerometer driver. TLC checks the models on small
instances; TLAPS proves some of the results for every value of the constants. Paths
below are relative to the repository, which sits in `src/`.

## 1. The system and its parts

An application is a set of FreeRTOS tasks. They call *services* (`modules/efHal`), each of
which offers one kind of device and calls, through a table of function pointers, the
driver of the board (`modules/bsp_*`). Interrupt handlers of the board call back into the
service ("internal" functions), and the service wakes the task that waits.

| Component | State it keeps | Operations | Interacts with |
|---|---|---|---|
| I2C service (`efHal_i2c.c`, `bsp_frdmkl46z_i2c.c`, `sI2C.c`) | per handle: mutex, bound task; driver handle | `transfer`, end-of-transfer | kernel mutex, task notification *value* (result code), I2C interrupt or bit-banged bus |
| SPI service (`efHal_spi.c`, `bsp_frdmkl46z_spi.c`) | per handle: mutex, bound task; driver handle re-created by a configuration | `transfer`, `config`, end-of-transfer | kernel mutex, task notification *state*, SPI interrupt |
| UART service (`efHal_uart.c`, `bsp_frdmkl46z_uart.c`) | send and receive queue, `txHasEnded`, register C2 | `send`, `recv`, `conf`, interrupt | kernel queues, UART interrupt, line |
| Analog service (`efHal_analog.c`, `bsp_frdmkl46z_analog.c`) | slot table, callback table, converter semaphore, `indexMap`, `adcVal` | `startWaitRead`, `startConv`, `setEndConvCB`, end of conversion | critical sections, notification *count*, ADC interrupt |
| GPIO service (`efHal_gpio.c`) | waiting table, callback table | `waitForInt`, `setCallBackInt`, interrupt routine | notification *count*, port interrupts; no critical section |
| PWM service (`efHal_pwm.c`) | waiting table, callback table | as GPIO, and `setPeriod`, `setDuty` | notification *count*, timer interrupt |
| Kernel notifications (`externals/freertos/src/tasks.c`) | per task: value and state | take, wait, clear, give, notify | every service |
| Device registry (`efHal.c`) | slots of device handles | `searchFreeSlot`, the services' `deviceReg` | services, before the scheduler runs |
| Error handler (`efErrorHdl.c`) | table of errors; in each task's local storage a pointer into it | `errorFull`, `getErrorType`, `getErrorInfo`, `freeError` | every module, interrupt handlers included |
| Software timers (`softTimers/cortex`) | per timer: in use, base, roll-over counter, last VAL; TICKINT | `open`, `close`, `get`, `getAndClear`, `clear`, roll-over hook | SysTick interrupt |
| LED sequencer (`efLeds.c`) | per LED: sequence, index, time left; the pin | `efLeds_msg`, timer callback | FreeRTOS timer task |
| Accelerometer (`mma8451.c`) | copy of CTRL_REG1, mutex | `setDataRate`, `setCtrlReg1/4/5`, `getAccIntCount` | I2C service |
| Distance sensor, servo (`sensor_sr04.c`, `servo.c`) | nothing of their own | `measure`, `setPos` | GPIO, PWM, timers |
| Touch screen (`touchScreen.c`) | last point, pressed flag, calibration | `performRead`, `read` | analog and GPIO services |
| Displays (`oled.c`, `ili9486.c`) | frame buffer, command tables | drawing | SPI, I2C, GPIO |
| Board GPIO and start-up (`bsp_*`) | pin tables | register access, port interrupt dispatch | GPIO service |

What is hard here is not any single function but what may come between two of its steps:

* a task is preempted between two accesses to a table, a flag or a device register that
  another task or an interrupt handler uses too (GPIO tables, `txHasEnded`, register C2);
* an interrupt comes after an operation was started and before the task waits for it;
* a wait times out while the answer is on its way, and the late answer is delivered to
  whatever the task does next;
* a driver refuses or fails half-way, and every path must give back mutex, slot and
  semaphore;
* one FreeRTOS notification per task is used in three ways, as a value, as a state and as
  a count, by services that know nothing of each other.

`PROJECT.json` lists each such hazard at its line, with the properties that cover it or
the reason why none does yet.

What makes each component correct:

* **I2C, SPI**: one transfer per device at a time; the end of a transfer reaches the task
  that started it; the code returned is that transfer's; a task that was given the device
  gives it back.
* **UART**: bytes accepted leave once, in order and eventually; the transmitter never
  idles with bytes queued; bytes received are read in order.
* **Analog**: a slot belongs to one task; the converter works for one input; a successful
  read is not older than the call; a call whose conversion was started returns.
* **GPIO**: a slot belongs to one task; an interrupt is not slept through; no slot leaks;
  a callback stays registered; a wait that succeeds has seen an interrupt.
* **Board ports**: an edge is not lost between the service's call and the clearing of its
  flag; a pin's task is woken by that pin's edges.
* **PWM**: as GPIO, and the table is never left.
* **Services together**: what one leaves in a task's notification record does not pass for
  the answer of another.
* **Error handler**: a task sees its own last error until it frees it, and slots come back.
* **Software timers**: a time read is the time that passed, and the kernel's tick is on
  again after every call.
* **LED sequencer**: an LED shows the last message it was sent, in phase.
* **Accelerometer**: the driver's copy of the control register is what the sensor holds;
  registers are written in standby, and the sensor measures again afterwards.

## 2. Modules

| Module | Models | Extends / uses |
|---|---|---|
| `TaskNotify` | the kernel's notification calls, as operators on a `[value, state]` record | |
| `TaskNotify_proofs` | lemmas about those operators | `TaskNotify` |
| `SerialBus` | abstract specification: a device serves one request of one holder at a time | |
| `EfHalI2c` | `efHal_i2c_transfer` over the interrupt-driven and the bit-banged driver | `TaskNotify`, `SerialBus` (refinement) |
| `EfHalI2c_proofs` | theorems about it | |
| `EfHalSpi` | `efHal_spi_transfer`, `efHal_spi_config` | `TaskNotify`, `SerialBus` (refinement) |
| `EfHalSpi_proofs` | theorems about it | |
| `EfHalUart` | `send`, `recv`, `conf`, interrupt handler, transmitter and receiver | |
| `EfHalUart_proofs` | theorems about it | |
| `EfHalAnalog` | `startWaitRead`, `startConv`, `setEndConvCB`, ADC interrupt | `TaskNotify` |
| `EfHalAnalog_proofs` | theorems about it | |
| `EfHalGpio` | `waitForInt`, `setCallBackInt`, interrupt routine | `TaskNotify` |
| `BoardPorts` | the port interrupt handlers of the KL46Z | `EfHalGpio` |
| `EfHalGpio_proofs` | theorems about both | |
| `NotifyShared` | tasks that use the I2C and the GPIO service: one notification record for both | instances of `EfHalI2c`, `EfHalGpio` |
| `ErrorBoard` | abstract specification: a task's error, seen and freed by it alone | |
| `EfErrorHdl` | `errorFull`, `getErrorType`, `freeError` | `ErrorBoard` (refinement) |
| `EfErrorHdl_proofs` | theorems about it | |
| `Mma8451` | the accelerometer driver | |
| `SoftTimers` | the timers, SysTick and its interrupt | |
| `EfLeds` | `efLeds_msg` and the timer callback | |
| `EfHalPwm` | `efHal_pwm_waitForInt` and the interrupt routine | `TaskNotify` |
| `Application_proofs` | theorems about `NotifyShared`, `SoftTimers`, `EfHalPwm`, `EfLeds` and `Mma8451` | |
| `MCApplication` | an application: those five modules side by side | extends them |
| other `MC*` | constants for TLC, nothing else | the module they are named after |

**From code to model.** Each task has a program counter `pc`; one action is one access to
shared state or one kernel call, so that anything may come between two accesses the code
does not protect. What the code does inside a critical section, and what an interrupt
handler does, is one action: handlers of the M0+ run to completion over tasks, and those
modelled here have the same priority. A call that blocks is two actions, entering the wait
and leaving it, with a `blocked` location between them; the notifying action moves the
task to `woken` exactly when the kernel would. Local variables are functions of the task.
A local whose value no longer matters is reset when its call returns, to keep states
alike. Data that no property tells apart is left out: buffers and bytes, addresses,
pin registers, scaling. Requests are the *shapes* the drivers tell apart.

History variables, which the code does not have, are marked as such where they are
declared: `outcome` (how a transfer ended), `clobbered` (a store of C2 undid a bit set
meanwhile), `convFor`/`own` (whose conversion runs, and whether it ended), `seen` (the pin
has fired), `overlapped` and `raced` (two claims were made in the same table at once),
`edge` (the pin had an edge), `left` (who left a value behind), `careless`/`full`,
`age`/`drift`/`truth`/`nested` (the true time, and nested calls), `asked`/`disturbed`/`failed`
and `waited`/`starved`. They are read by properties only.

* `TaskNotify`. `ulTaskNotifyTake(pdTRUE, ..)` blocks on the value, `xTaskNotifyWait(0, 0,
  ..)` on the state, `xTaskNotifyStateClear` touches only the state, the FromISR calls set
  the state to received and give, overwrite or keep the value. Counts above one are not
  told apart, since every take clears the count.
* `SerialBus`. Phases `free`, `ready`, `busy`, `done` of a device, with its holder and the
  result; the steps `Acquire`, `Start`, `End` (on the wire, or a refusal
  before it), `Answer`.
* `EfHalI2c`. `TakeMutex` .. `GiveMutex` are the lines of `efHal_i2c_transfer`; `Hw*` are
  the paths through `bsp_frdmkl46z_i2c_deviceTransfer`; `Soft*` is `sI2C_transfer`, which
  runs in the calling task and notifies its own caller; `Interrupt` is the driver's
  callback. `HwStartInVain` is a start the vendor driver refuses (its status is dropped)
  or a read without a command, whose byte count runs below zero: nothing ends it.
* `EfHalSpi`. The same outline, no result code; `ConfCB` re-creates the driver handle.
* `EfHalUart`. `Put` .. `WriteC2` are the statements of `efHal_uart_send`; the
  read-modify-write of C2 is two actions. `Irq` is the handler, its loop over the data
  register included. The transmitter is a data register and a shift register.
* `EfHalAnalog`. Slots are claimed and released in one action each (critical sections).
  `TakeConverter`/`StartConv`/`StartUnmapped` are `startConv` of the KL46Z driver,
  `AdcIrq` its handler, which calls `EndConv`.
* `EfHalGpio`. Nothing is protected: the test, the two stores of a claim and the two
  stores of a release are an action each. The initial table is the one `efHal_gpio_init`
  leaves: its second loop clears the identifiers of the wrong table.
* `BoardPorts`. An edge sets the pin's flag; `Enter` .. `Leave` are the handler of a port,
  which tests the flags anew for every pin and, for each it takes for flagged, calls the
  service (`Notify`) and then clears the flag (`ClearFlag`): edges come in between. Tasks
  do not run while a handler runs or is requested. The order of a port's pins is left open.
* `NotifyShared`. The actions of the two services, conjoined with "the other service is
  left alone"; a task is in one call at a time. `left` is the only variable of its own.
* `EfErrorHdl`. `errorFull` is one critical section, and any task may be the one it is
  charged to at any moment: a handler's report goes to the task it interrupted.
  `getErrorType` and `freeError` read the pointer first and use it in a second step. The
  function and line of a report are one value, `site`. With a full table the code sets its
  locals `type` and `msg` and stores neither; `ErrorFull` does as the code does.
* `SoftTimers`. Time is SysTick's counts. `Count` is a count, with the reload and, if
  TICKINT allows, the hook `softTimers_rollOver`, which runs before any task goes on.
  Every access of `get` and `clear` to VAL, TICKINT or the entry is a step, except that an
  entry's fields only its owner stores are read together with the next access. `Elapsed` is
  the arithmetic of `softTimers_get`: an `int32_t` that wraps and divisions that truncate.
  A reload with TICKINT off raises no interrupt later: the SysTick exception is raised
  when the counter reaches zero, and only then.
* `EfLeds`. Each store of `efLeds_msg` is a step, and `CallBack` is the whole callback,
  which the MKL46Z's timer task runs at the highest priority
  (`portable/MKL46Z256VLL4/FreeRTOSConfig.h:95`). (The nucleoF767ZI gives it a lower one;
  there the callback could be preempted, which is not modelled.) What lies past the end
  of a sequence in memory is 0 or something else.
* `Mma8451`. A change of a bit field of `reg1` is a load and a store; `mma8451_setDataRate`
  makes one, and copies the register for its call of `mma8451_setCtrlReg1`, without the
  mutex. A bus transfer is a step that may fail.
* `EfHalPwm`. As `EfHalGpio`, where the code differs: a call that finds no slot sleeps all
  the same and then writes the entry past the table (`smashed`), and the release keeps the
  identifier.

## 3. Runs

All runs finish within a few minutes with two workers.

| Run | Instance | Shows |
|---|---|---|
| `I2cTransfer` | 2 tasks; a controller handle and a bit-banged handle; valid, read-only and empty requests; success or NAK | `TypeOK`, `CompletionReachesStarter`, `ResultIsOwn`, `NoMissedEnd`, `StepsOfBus` (every step is a step of `SerialBus`), `HolderReturns` (liveness) |
| `SpiTransfer` | 3 tasks on one device, two of them also configure it; valid and empty requests | `TypeOK`, `SleeperServed`, `StepsOfBus`, `HolderReturns` |
| `UartSend` | 2 senders of two bytes, a queue of one | `TypeOK`, `Conserved` (once, in order), `Sent` (liveness) |
| `UartConf` | 2 senders and a task that re-configures the line | `NoStall`: the transmitter stalls only if a store of C2 overwrote another's |
| `UartRecv` | 1 reader asking for one or two bytes, a queue of two, five arrivals, re-configurations in between | `RecvInOrder`, `ReaderServed` (liveness) |
| `AnalogRead` | 3 tasks, 2 slots, 2 inputs and a pin that is none; two tasks have time limits and share an input, one also starts conversions without waiting | `TypeOK`, `SlotsOwned`, `OneConversion`, `FreshRead`, `WaiterReturns` (liveness) |
| `GpioWait` | 3 tasks, 2 slots, one pin of identifier 0, two tasks waiting for the same other pin, with and without time limits | `TypeOK`, `SlotsOwned`, `NotSleptThrough`, `NoSlotLeaks` |
| `PortDispatch` | 1 waiting and 1 registering task; a pin on port A and two on port C, one slot, 2 callbacks | `EdgeNotLost`, `SeenMeansEdge`, `CallBackKept` (action property) |
| `ErrorSlots` | 2 tasks, 2 error types, 2 slots | `TypeOK`, `SlotsAccounted`, `EnoughSlots`, `StepsOfBoard` (every step is a step of `ErrorBoard`) |
| `Application` | 2 tasks on one bus handle and one pin; 2 callers of the accelerometer, 2 rates, transfers that fail; 2 timers; 1 LED; 2 PWM tasks and entries | `TransferUndisturbed`, `HonestUnlessLeft` (action property), `CopyIsTrue`, `StandbyIsBrief`, `ElapsedAccounted`, `TickRestored`, `LedFollows`, `OwnOutputServed` |
| `GpioStale` | 1 task with a time limit, 1 pin | violated: `TrueMeansInterrupt` (section 6) |
| `GpioNull` | 1 task, 1 pin | violated: `NoNullHandle` (section 6) |

**Bounds.** Two tasks are the least that can disturb each other, and every rule of I2C and
UART is about pairs; a third appears where a slot can change hands between the other two
(analog, GPIO) or where one configures while another sleeps (SPI). Tables have two slots,
so that "the first slot that holds the pin" may be the wrong one and so that they run full
with three tasks. The queues of the UART are as short as they can be: full and empty are
then everywhere. Byte numbers are modulo `Tags` = 4, more than fit between the caller and
the line (queue, data register, shift register), so that a lost, doubled or swapped byte
shows. `MaxArrivals` = 5 fills and overflows a queue of two and a full data register.
`SYMMETRY` is used only in runs without liveness, over tasks the constants treat alike.
In `Application` the modules that share no state take no turns: a behaviour moves one of
them (`part`), which leaves out no state of any. The numbers of the timers are scaled
down together: a tick is 4 counts (`ClockMhz` = 2, `TickUs` = 2), an "int32_t" holds -3 to
2 (`HalfRange`), a timer is at most `MaxAge` = 5 counts old, so that a reload falls on
every step of a call and the arithmetic overflows. The LED's sequences have the lengths
of the code's and times of one or two callbacks; `MaxIndex` = 6 lets an index run two
positions past the longest. `CallBackKept` speaks of registrations that do not overlap:
one registering task, again and again, is enough in the run, and the theorem covers more.
`longCommand` requests and refused starts (`MayRefuse`) are left to the proofs, which
cover all of them; TLC checks the paths they share with `empty` and `readOnly`.

**Fairness.** A task that is ready runs (weak fairness of its steps): FreeRTOS is
preemptive and tasks that wait give the processor away. A started transfer, conversion or
byte ends (weak fairness of the interrupt and of the line): that is the controller's
doing. A finite block time passes. Nothing stronger is assumed: a mutex or semaphore that
is given back is not handed over, so no property promises that a task *gets* a device,
only that one that has it returns it; nobody has to call and no byte has to arrive.
Fairness per task assumes that a task of high priority does not spin for ever, which the
services never do.

**Deadlock.** `CHECK_DEADLOCK FALSE` is set where the system may really stop: a request
that the I2C or SPI driver never ends keeps its mutex for ever and can leave every task
asleep (`I2cTransfer`, `SpiTransfer`). The
other runs check it.

**Conditions in properties.** `SlotsOwned`, `NotSleptThrough` and `CallBackKept` of GPIO
hold as long as claims (registrations) do not overlap: the code takes no critical section,
and two tasks that claim at once can share a slot. Overlapping claims stay in the model;
`NoSlotLeaks` is checked through them. `FreshRead` and, without a time limit,
`WaiterReturns` of the analog service hold for a task that waits without a limit on
inputs of its own: after a timeout a late interrupt leaves a count behind that lets the
next call return at once, and of two tasks reading the same input the interrupt wakes only
the first. Those tasks run in the same instance, so the properties say that an undisturbed
task is not affected by what happens to the others.

The other conditions name, each, a way in which the code does fail; they stay in the model:

* `SeenMeansEdge` excepts the pins of port A, whose handler tests the flags with `|` where
  it wants `&` (`bsp_frdmkl46z_gpio.c:371`) and reports every pin.
* `HonestUnlessLeft` names the two reasons for which `waitForInt` returns true without an
  edge: a code other than 0 that the task's last transfer left in the value, and an edge at
  the end of the previous wait (run `GpioStale`).
* `careless`: a task has a second error before it freed the first, or one while it is in
  `freeError`. Its older slot is then lost, or freed in place of the new one. `full`: the
  table had run full, and slot 0 belongs to two tasks.
* `nested`: two tasks are in `softTimers_open` at once (they may get the same timer), or
  have the tick interrupt off at once (the first to leave turns it on for both).
  `ElapsedAccounted` also charges what the code cannot know: reloads lost while the
  interrupt was off, and a tick between the two stores of `open`.
* `disturbed`: a call of the accelerometer overlaps a `setDataRate`, which may then store
  an old ACTIVE; `failed`: a transfer failed, which the driver does not look at.
  `CopyIsTrue` holds without the first.
* `starved`: a message to an LED is kept half-stored for longer than the first time of the
  new sequence; the callback then works on the old sequence with the new index and time.
* `raced`: as for GPIO. Without an entry for every task the PWM call writes past its table;
  `EnoughEntries` says that there is one.

## 4. Proofs

`EfHalI2c_proofs`, for any tasks, any devices of both kinds, drivers that may refuse, every
request shape and every result code:

* `TypeCorrect`, `CompletionReachesItsTask`, `ResultIsItsOwn`, `EndNeverMissed`:
  `Spec => []TypeOK` and so on for the three safety invariants of the run.
* `ServiceIsBus`: `Spec => StepsOfBus`, the service implements `SerialBus`.

None of the invariants is inductive alone: that the code returned is the transfer's own
depends on what the notification holds at every location on the way. The inductive
invariant `IInv` adds *ownership* (who is past the mutex holds it, who holds it is past it,
and the device is bound to its holder), *the wire* (whoever has a transfer under way holds
the device and waits for its end), *a free device is clear*, and *what the notification
says* at each location: nothing is pending when a transfer starts, which is what
`xTaskNotifyStateClear` is for, and afterwards it is pending exactly when the transfer has
ended. Lemma `InvStep` goes through the actions one by one. The only assumption is
`I2cAssumption` on the constants, plus the lemmas of `TaskNotify_proofs` about the kernel
operators.

`EfHalSpi_proofs`, for any tasks and devices, any of the tasks configuring:

* `TypeCorrect`, `SleeperIsServed`: `Spec => []SleeperServed`,
* `ServiceIsBus`: `Spec => StepsOfBus`. A configuration is a stutter of `SerialBus`.

The invariant has the same parts as for I2C. Ownership includes the tasks that configure:
since they hold the mutex, the holder of a transfer is never one of them, so re-creating
the driver handle finds no transfer to lose.

`EfHalUart_proofs`, for any number of senders, readers and queue lengths:

* `TypeCorrect` (the queues stay within their lengths),
* `NeverStalls`: `Spec => []NoStall`. With the transmit interrupt off, `EndAnnounced` says
  that if the handler has announced an empty queue, bytes are queued only while a sender is
  about to look at the flag, and `EndClaimed` that if it has not, a sender has claimed the
  transmitter and is about to store C2; an overlapped store is the exception to both.
* `ReadInOrder`: `Spec => []RecvInOrder`. The invariant says that the byte read last, the
  queue and the data register rise up to the number of the last arrival; two lemmas say
  that appending a higher byte and taking the head keep a queue rising.

`EfHalAnalog_proofs`, for any tasks, slots, inputs and identifiers:

* `TypeCorrect`, `SlotsAreOwned`, `OneConversionAtATime` (the slot table and the converter
  are inductive together with `CallsRight`: which call a task is in and what it holds),
* `ReadIsFresh`: `Spec => []FreshRead`. `UndisturbedRight` says, for a task that shares no
  input and has no time limit, that a conversion of one of its inputs is its own, and that
  a count is there at each location exactly when that conversion has ended.

`EfHalGpio_proofs`, for any tasks, pins and table lengths:

* `TypeCorrect`, `SlotsAreOwned`, `InterruptNotMissed` (`NotSleptThrough`),
  `SlotsComeBack` (`NoSlotLeaks`) and the action property `CallBacksAreKept`
  (`CallBackKept`).

`Cleared` needs no condition: a slot with a handle, or with a pin of its own, has a task
that will clear it, however claims overlapped; that is why no slot leaks. `Claims`, `Counts`
and `CallBacks` hold as long as nothing overlapped: who has which slot, that a task whose
pin has fired has a count before it blocks, and that the callback table is filled from the
front. A pin of identifier 0 matches slots that were never used; `SlotAt` therefore says of
such a slot that nobody has searched beyond it.

Each module's proof rests on the assumption about its constants, the lemmas of
`TaskNotify_proofs` about the kernel operators, and nothing else.

`EfErrorHdl_proofs`, for finitely many tasks, any error types and any length of the table:

* `TypeCorrect`, `SlotsAreAccounted`, `SlotsAreEnough`: `Spec => []EnoughSlots`. The step
  that reports with every slot in use is excluded by counting (`AllHaveSlots`): if each slot
  is the slot of some task, those tasks are as many as the slots, so with no more tasks than
  slots there is none left without, and the reporting task was careless.
* `HandlerIsBoard`: `Spec => StepsOfBoard`. The invariant `Pointers` says that whatever a
  task points to, from its local storage or from the local variable it has just read, is in
  use and nobody else's; so freeing a slot, or reusing one, changes nobody else's error.

`EfHalGpio_proofs` goes on to `BoardPorts`, for any ports and pins:

* `EdgesAreKept`: `PortSpec => []EdgeNotLost`, `SeenIsEdge`: `PortSpec => []SeenMeansEdge`
  and `CallBacksAreKeptByPorts`: `PortSpec => CallBackKept`.

A handler calls the service as a step of `ServiceNext`, so the service's invariant carries
over: it was stated to bear a report of any pin, since port A reports all of its own.
`Serving` adds that no task moves while a handler runs, and that the pin whose flag the
handler is about to clear has been seen by every task in the call; `EdgeAt` that an edge is
still flagged or has been seen. So the flag that `ClearFlag` clears, set anew or not, is
none that a sleeping task needs.

`EfHalUart_proofs` has also `BytesAreConserved`: `SafeSpec => []Conserved`. `Conserved` is
inductive with the types. It says of the sequence of bytes under way (shift register, data
register, queue) where the bytes of one sender are and what numbers they bear, and four
lemmas say how appending a byte and taking the first change that (`PlacesAppend`,
`NumberedAppend`, `PlacesTail`, `NumberedTail`). `IrqUnderWay` and `LineUnderWay` show that
the handler and the controller hand bytes on from queue to register to register and change
none of the sequence, but for the byte that leaves. No condition on stores of C2 is needed:
they can stop the line but not lose a byte.

`Application_proofs` has five parts that use nothing of each other.

*`Mma8451`*, for any tasks, any rates, transfers that may fail or not:

* `CopyStaysTrue`: `AccSpec => []CopyIsTrue`. `Debts` says that as long as no transfer
  failed, the sensor holds what the copy does unless some task still *owes* a transfer of
  the register: it has changed the copy, or is about to, and its own last transfer is ahead.
  That transfer sends `reg1` as it then is, or the parameter; for the latter `Debts` says
  that `reg1` equals it, or that another task owes.
* `StandbyStaysBrief`: `AccSpec => []StandbyIsBrief`. `Phase` follows the bit ACTIVE through
  the copy, the sensor and the locals at each location; `OthersCalm` says that the other
  tasks are then idle or wait for the mutex.

*`NotifyShared`*, for any tasks, any of them with time limits, any number of slots and any
of the codes with which a transfer ends (`SharedAssumption`):

* `TransferIsUndisturbed`: `Spec => []TransferUndisturbed`,
* `HonestyIsKept`: `Spec => HonestUnlessLeft`.

The invariants of the two services do not add up to this one: each says what the record
holds as if the other service did not write it. `RecordAt` says it for both; it rests on
`HandlesWait`, by which a handle left in the waiting table is that of a task still in
`waitForInt`, whatever claims raced for its slot, and so never of one in a transfer; and on
`OneCall`. `LeftAt` says that a value other than 0 has its author: an interrupt of this
wait, a transfer that failed, or an edge after the wait.

*`SoftTimers`*, for any tasks, timers and bases, any clock and length of a tick:

* `TickComesBack`: `TimersSpec => []TickRestored`, however calls overlap.
* `TimeIsAccounted`: `TimersSpec => []ElapsedAccounted`. While calls have not nested,
  `Clocked` is an equation between the age of a timer, the counter, the ticks counted and
  those not counted or counted too much (`drift`); the period in it is a product of two
  constants, which lemma `Periods` keeps out of the steps. `Measured` carries the equation
  through the reads of one call. The arithmetic of `softTimers_get` comes last: a sum that
  fits an `int32_t` is not wrapped, and the bounds that the two truncating divisions leave
  (`QuotientFacts`, `SumFacts`, `ElapsedFacts`). Besides positive constants the proof
  assumes `TickUs <= HalfRange`: a tick, 1000 in the code, fits an `int32_t`. `MaxAge` may
  be any number, so that the theorem is about timers of any age.

*`EfHalPwm`*, for any tasks, outputs and entries:

* `OwnOutputIsServed`: `PwmSpec => []OwnOutputServed`. That the table is never left is a
  matter of counting (`Room`): a task goes past an entry only if that holds another task's
  handle, and that task stays behind, so at most as many tasks stand beyond entry *e* as
  there are tasks less *e*. `EnoughEntries` then leaves no task to go past the last
  (`RoomFits`). `FirstIsOwn` says that no entry before a task's own holds the output of a
  task alone with it: an identifier that its own earlier call left behind stands in an
  entry that is free, and then the task takes it, or that another task has since claimed,
  and then it is overwritten. So the routine, which stops at the first match, finds it.

*`EfLeds`*, for any LEDs and any times of the four sequences, as long as each has as many
lit positions as dark ones and no time of 0 before its end (`LedsAssumption`), as the
code's have:

* `LedShowsMessage`: `LedsSpec => []LedFollows`. While the stores of a message are under
  way the old sequence still runs, with the new time and index. `Counted` says that it
  can only count down as long as no more callbacks come than the new sequence's first time;
  only then does it move on (`starved`).

**Only model-checked.** Every safety invariant and action property of the passing runs is
now a theorem. Liveness is not (`HolderReturns`, `Sent`, `ReaderServed`, `WaiterReturns`):
it rests on fairness and so on ENABLED, which is beyond the prover. The two runs that expect a
violation are counterexamples and have nothing to prove.

## 5. What is left

1. The measurement of `sensor_sr04.c` over `EfHalGpio` and `SoftTimers`: its second wait
   claims a slot after the first has returned, and a falling edge in between is lost. Only a
   model with time can say how short an echo this costs.
2. The bits of the software I2C as a refinement of the bit-banged device.
3. The arithmetic of `efHal_pwm_setDuty`, whose products wrap for duties in ns and us.

## 6. Where code and comment part

* `GpioStale`. `efHal_gpio_waitForInt` clears the notification *state*
  (`efHal_gpio.c:152`) but waits on its *value* (`:164`). An interrupt after the wait has
  timed out and before the slot is released leaves a count, and the next call returns true
  at once. `sensor_sr04.c:80` relies on the call to "Wait for rising edge".
* `GpioNull`. The identifier is stored (`:150`) before the handle (`:151`). An interrupt
  in between finds an entry with the pin and no task, which the routine reports as an
  error (`:261`), and wakes nobody.

Seen while modelling, kept in the models and not claimed as findings: the analog service
leaves a count behind in the same way and wakes only one of two readers of an input; the
status of the start of a transfer is dropped by the I2C and SPI drivers; a read without
a command never ends on the I2C controller; `PORTA_IRQHandler` tests `intFlags | (1 << j)`,
which no pin fails; `efErrorHdl_errorFull` sets `EF_ERROR_HDL_NO_FREE_SLOT` in a local
variable and stores it nowhere; `mma8451_setCtrlReg1` stores the new register in the copy
before `writeRegWithActiveLow` looks at ACTIVE there, so a request that stops the sensor is
written while it still measures; `sensor_sr04_init` initialises all software timers again,
those of others included. The hazards in `PROJECT.json` give the lines.

## 7. Not modelled

* Registration of device handles and `efHal_init`: one actor, before the scheduler starts.
* The bit-level protocol of `sI2C`, the bus release sequence, pin configuration, the LPSCI
  driver (same structure as the UART's), boards other than the KL46Z (same services, other
  registers).
* `setDuty`, `setPeriod` and the callback table of the PWM service; nothing on the KL46Z
  calls its interrupt routine.
* The distance sensor and the servo: straight-line clients without shared state.
* The touch screen: in the application that has one, its reader and the display's callback
  run in the same task (`examples/tft_ili9486/application/src/blinky_tft.c:89-99`).
* Displays, start-up code and clock set-up: data and register writes without control.
* The vendored libraries under `externals/`, except for the kernel calls and driver
  functions named in the map: they are third-party code, and most of the repository's lines.

Task priorities are not modelled: any ready task may run, which includes every schedule
that priorities allow (the LED callback, see section 2, is the exception). Weak memory
plays no part on a single-core Cortex-M0+.
