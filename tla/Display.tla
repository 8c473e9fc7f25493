------------------------------ MODULE Display ------------------------------
(***************************************************************************)
(* The display of the clock: the command queue, the CommandReceiver and the *)
(* state machines of the tubes, the lamps and the bars.                    *)
(*                                                                         *)
(* Every machine has a thread that calls its write ten times a second      *)
(* (machine_manager.rb:41-50); the thread of the queue's consumer calls    *)
(* handle_command on all of them.  Nothing keeps the two from changing the *)
(* state of one machine at the same time, so a handle_command goes through *)
(* the steps of its "call" one by one:                                     *)
(*                                                                         *)
(*   read     current_state = params[:state]                               *)
(*   merge    params.merge!, then perhaps fire the event                   *)
(*   leave    leave_state of the state the machine is in                   *)
(*   switch   block.call: the machine is in the new state                  *)
(*   publish  params[:state] = object.state                                *)
(*   enter    enter_state of the state the machine is in                   *)
(*   driver   the last line of the enter_state of animation                *)
(*                                                                         *)
(* A NoMethodError of leave_state and enter_state is rescued.  Any other   *)
(* exception ends the handle_command; in the thread of a machine it ends   *)
(* the process as well (nixonpi_service.rb:39), in the consumer's nothing  *)
(* but the message.                                                        *)
(***************************************************************************)
EXTENDS CommandValidator, Integers, Sequences

CONSTANTS
    Machines,       \* the machines modelled; commands to others are dropped
    Polled,         \* bound: the machines whose thread gets to run
    Requests,       \* the commands the web server or the scheduler may send
    RequestLimit,   \* bound: how many of them
    HourLimit,      \* bound: how often the full hour strikes
    AnimationTicks  \* outputs of an animation

Consumer == "consumer"
Threads  == Machines \cup {Consumer}

Message == [to : {"tubes"} \cup Lamps \cup Bars, cmd : Command]

ASSUME DisplayAssumption ==
    /\ Machines \subseteq {"tubes"} \cup Lamps \cup Bars
    /\ Polled \subseteq Machines
    /\ Requests \subseteq Message
    /\ RequestLimit \in Nat /\ HourLimit \in Nat
    /\ AnimationTicks \in Nat \ {0}

VARIABLES
    queue,          \* the messages of the broker's queue
    locks,          \* @locks of the CommandReceiver
    state,          \* the state of each machine
    params,         \* its StateHash: state, value, animation_name, options, last_value
    animation,      \* its @animation
    entered,        \* states whose enter_state has set its instance variables
    format,         \* @format of the tubes; @tubes_count is set with it
    shown,          \* what its driver was last told to show; digits for whatever the tubes show
    call,           \* the handle_command each thread is in
    failure,        \* the exception that ended a thread, and so the process
    requests,       \* requests still to come
    hours           \* full hours still to come

Steps    == {"idle", "read", "merge", "leave", "switch", "publish", "enter", "driver"}
Outputs  == {"nothing"} \cup Texts \cup {"seconds"}
Failures == {"none", "no format", "value is no string", "no target time",
             "no tubes count", "no start time", "no blink time", "no class method",
             "no such animation", "no driver", "Animation can't be empty!!"}

machineVars == <<state, params, animation, entered, format, shown>>
vars == <<queue, locks, machineVars, call, failure, requests, hours>>

\* Messages to machines that are not modelled are not queued.
Post(m) == IF m.to \in Machines THEN <<m>> ELSE << >>
Send(messages) == queue' = queue \o messages

NoAnimation == [left |-> 0, goto |-> Nil, sent |-> TRUE, driver |-> FALSE]

Handle(m, c, at) == [at |-> at, on |-> m, cmd |-> c, current |-> Nil]
NoCall == Handle("none", SetState(Nil, Nil), "idle")

Free(m, value) == [to |-> m, cmd |-> SetState(Str("free_value"), value)]
Dark(m) == Post(Free(m, Num("0")))

\* run! tells every lamp to be dark before it starts the threads.
Init ==
    /\ queue = Dark("lamp0") \o Dark("lamp1") \o Dark("lamp2") \o Dark("lamp3") \o Dark("lamp4")
    /\ locks = {}
    /\ state = [m \in Machines |-> "startup"]
    /\ params = [m \in Machines |-> [state |-> Nil, value |-> Nil, name |-> "none",
                                     options |-> NoOptions, last |-> Nil]]
    /\ animation = [m \in Machines |-> NoAnimation]
    /\ entered = [m \in Machines |-> {}]
    /\ format = Nil
    /\ shown = [m \in Machines |-> "nothing"]
    /\ call = [t \in Threads |-> NoCall]
    /\ failure = "none"
    /\ requests = RequestLimit
    /\ hours = HourLimit

----------------------------------------------------------------------------
\* handle_command, one step of thread t at a time

Goto(t, at) == call' = [call EXCEPT ![t].at = at]
Return(t) == call' = [call EXCEPT ![t] = NoCall]

ReadState(t) ==
    /\ call[t].at = "read"
    /\ call' = [call EXCEPT ![t].at = "merge",
                            ![t].current = params[call[t].on].state]
    /\ UNCHANGED <<queue, machineVars>>

Merged(p, c) ==
    [p EXCEPT !.state = IF c.state = Nil THEN @ ELSE c.state,
              !.value = IF c.value = Nil THEN @ ELSE c.value,
              !.name  = IF c.name = "none" THEN @ ELSE c.name,
              !.options = IF c.options = NoOptions THEN @ ELSE c.options]

\* The event fires unless the machine was in that state when it was read.
\* A Symbol is never equal to the String of params[:state].
MergeParams(t) ==
    /\ call[t].at = "merge"
    /\ params' = [params EXCEPT ![call[t].on] = Merged(@, call[t].cmd)]
    /\ IF call[t].cmd.state \in {Nil, call[t].current}
       THEN Return(t)
       ELSE call' = [call EXCEPT ![t] = Handle(@.on, SetState(@.cmd.state, Nil), "leave")]
    /\ UNCHANGED <<queue, state, animation, entered, format, shown>>

\* The two states with a leave_state that reaches something: time darkens the
\* lamps of the clock, blink its own.  (That of the meeting ticker sends to lamp5,
\* which has no receiver.)
ClockLampsOff == Dark("lamp3") \o Dark("lamp4")
BlinkOff(m) == [shown EXCEPT ![m] = "0"]

\* leave_state; the states without one raise NoMethodError, which is rescued.
LeaveState(t) ==
    /\ call[t].at = "leave"
    /\ LET m == call[t].on IN
       /\ Send(IF state[m] = "time" THEN ClockLampsOff ELSE << >>)
       /\ shown' = IF state[m] = "blink" THEN BlinkOff(m) ELSE shown
    /\ Goto(t, "switch")
    /\ UNCHANGED <<state, params, animation, entered, format>>

SwitchState(t) ==
    /\ call[t].at = "switch"
    /\ state' = [state EXCEPT ![call[t].on] = call[t].cmd.state[2]]
    /\ Goto(t, "publish")
    /\ UNCHANGED <<queue, params, animation, entered, format, shown>>

PublishState(t) ==
    /\ call[t].at = "publish"
    /\ LET m == call[t].on IN params' = [params EXCEPT ![m].state = Str(state[m])]
    /\ Goto(t, "enter")
    /\ UNCHANGED <<queue, state, animation, entered, format, shown>>

\* Mutant: all the lamps are darkened.
EnterTimeInTheDark(t) ==
    /\ LET v == params["tubes"].value IN
       format' = IF IsString(v) /\ v # Str("empty") THEN v ELSE Str("format")
    /\ Send(Dark("lamp0") \o Dark("lamp1") \o Dark("lamp2") \o Dark("lamp3") \o Dark("lamp4"))
    /\ Return(t)
    /\ UNCHANGED <<state, params, animation, entered, shown>>

\* enter_state of time: the format, and the lamps of the clock.
EnterTime(t) ==
    /\ LET v == params["tubes"].value IN
       format' = IF IsString(v) /\ v # Str("empty") THEN v ELSE Str("format")
    /\ Send(Dark("lamp0") \o Dark("lamp1") \o Dark("lamp2") \o Post(Free("lamp3", Num("1")))
            \o Post([to |-> "lamp4", cmd |-> SetState(Str("blink"), Nil)]))
    /\ Return(t)
    /\ UNCHANGED <<state, params, animation, entered, shown>>

\* A value that is not a String has no strip, and an animation of the tubes needs a
\* start_value, from the options or from the value: else a NoMethodError.
Startable(m) ==
    LET p == params[m] IN
    /\ p.value = Nil \/ IsString(p.value)
    /\ m = "tubes" => p.options.goto # Nil \/ p.value \notin {Nil, Str("empty")}

\* enter_state of animation, but for its last line.  The options are never empty
\* (TypeOK), so the machine is not sent back to its last state; @animation stays
\* what it was when anything is raised.
EnterAnimation(t) ==
    /\ LET m == call[t].on IN
       \/ /\ ~Startable(m)
          /\ Return(t)
          /\ UNCHANGED <<animation, failure>>
       \/ /\ Startable(m)
          /\ params[m].name = "unknown"
          /\ Return(t)
          /\ failure' = IF t = Consumer THEN failure ELSE "no such animation"
          /\ animation' = animation
       \/ /\ Startable(m)
          /\ params[m].name # "unknown"
          /\ animation' = [animation EXCEPT ![m] =
                             [left |-> AnimationTicks, goto |-> params[m].options.goto,
                              sent |-> FALSE, driver |-> FALSE]]
          /\ Goto(t, "driver")
          /\ failure' = failure
    /\ UNCHANGED <<queue, state, params, entered, format, shown>>

UseDriver(t) ==
    /\ call[t].at = "driver"
    /\ animation' = [animation EXCEPT ![call[t].on].driver = TRUE]
    /\ Return(t)
    /\ UNCHANGED <<queue, state, params, entered, format, shown>>

\* ChronicDuration.parse: seconds, nil for what is no duration; a value that is no
\* String raises a NoMethodError before anything is assigned, and so does nil after.
IsDuration(v) == v \in {Str("digits"), Str("ratio"), Str("rate"), Str("1")}
Parsed(v) == IF IsDuration(v) THEN Num("seconds") ELSE IF IsString(v) THEN Nil ELSE v

\* enter_state of countdown: the value becomes a number of seconds.
EnterCountdown(t) ==
    /\ params' = [params EXCEPT !["tubes"].value = Parsed(@)]
    /\ entered' = IF IsDuration(params["tubes"].value)
                  THEN [entered EXCEPT !["tubes"] = @ \cup {"countdown"}] ELSE entered
    /\ Return(t)
    /\ UNCHANGED <<queue, state, animation, format, shown>>

\* enter_state of meeting_ticker: its pattern asks for a blank before the ratio,
\* which the validator does not; another string makes it go on to the time at once;
\* a value that is no String has no match, and nothing is set.
EnterMeetingTicker(t) ==
    /\ LET v == params["tubes"].value IN
       \/ /\ v = Str("rate") \/ ~IsString(v)
          /\ entered' = IF IsString(v)
                        THEN [entered EXCEPT !["tubes"] = @ \cup {"meeting_ticker"}]
                        ELSE entered
          /\ Return(t)
       \/ /\ IsString(v) /\ v # Str("rate")
          /\ entered' = entered
          /\ call' = [call EXCEPT ![t] = Handle("tubes", SetState(Sym("time"), Nil), "read")]
    /\ UNCHANGED <<queue, state, params, animation, format, shown>>

EnterBlink(t) ==
    /\ entered' = [entered EXCEPT ![call[t].on] = @ \cup {"blink"}]
    /\ Return(t)
    /\ UNCHANGED <<queue, state, params, animation, format, shown>>

EnterOther(t) ==
    LET s == state[call[t].on] IN
    \/ s = "time" /\ EnterTime(t)
    \/ s = "countdown" /\ EnterCountdown(t)
    \/ s = "meeting_ticker" /\ EnterMeetingTicker(t)
    \/ s = "blink" /\ EnterBlink(t)
    \/ s \in {"startup", "free_value"} /\ Return(t) /\ UNCHANGED <<queue, machineVars>>

EnterState(t) ==
    /\ call[t].at = "enter"
    /\ \/ state[call[t].on] = "animation" /\ EnterAnimation(t)
       \/ EnterOther(t) /\ failure' = failure

CallStep(t) ==
    /\ failure = "none"
    /\ \/ EnterState(t)
       \/ /\ \/ ReadState(t) \/ MergeParams(t) \/ LeaveState(t)
             \/ SwitchState(t) \/ PublishState(t) \/ UseDriver(t)
          /\ failure' = failure
    /\ UNCHANGED <<locks, requests, hours>>

----------------------------------------------------------------------------
\* write: what the thread of machine m does ten times a second

\* The machine changes its own state: handle_command(state: :animation) after
\* setting params[:animation_name] and params[:options], or handle_command(state: :time).
Call(m, c) == call' = [call EXCEPT ![m] = Handle(m, c, "read")]
StartAnimation(m, goto) ==
    /\ params' = [params EXCEPT ![m].name = "known",
                                ![m].options = [goto |-> goto, atEnd |-> "nothing"]]
    /\ Call(m, SetState(Sym("animation"), Nil))

\* An exception in a machine's thread ends the process (abort_on_exception).
Fail(error) == failure' = error

WriteStartup(m) ==
    /\ state[m] = "startup"
    /\ StartAnimation(m, Str(IF m = "tubes" THEN "time" ELSE "free_value"))
    /\ UNCHANGED <<queue, state, animation, entered, format, shown, failure, hours>>

\* At the full hour the time flies in.
WriteTime(m) ==
    /\ state[m] = "time"
    /\ \/ /\ format = Nil
          /\ Fail("no format")
          /\ UNCHANGED <<params, call, shown, hours>>
       \/ /\ format # Nil
          /\ shown' = [shown EXCEPT ![m] = "digits"]
          /\ UNCHANGED <<params, call, failure, hours>>
       \/ /\ format # Nil
          /\ hours > 0
          /\ hours' = hours - 1
          /\ StartAnimation(m, Str("time"))
          /\ UNCHANGED <<shown, failure>>
    /\ UNCHANGED <<queue, state, animation, entered, format>>

WriteFreeTubes(m) ==
    /\ m = "tubes"
    /\ state[m] = "free_value"
    /\ LET v == params[m].value IN
       /\ shown' = IF IsString(v) THEN [shown EXCEPT ![m] = "digits"] ELSE shown
       /\ failure' = IF IsString(v) THEN failure ELSE "value is no string"
    /\ UNCHANGED <<queue, state, params, animation, entered, format, call, hours>>

\* Mutant: only the first value is written.
WriteFreeLampOnce(m) ==
    /\ m # "tubes"
    /\ state[m] = "free_value"
    /\ params[m].value # Nil
    /\ params[m].last = Nil
    /\ shown' = [shown EXCEPT ![m] = params[m].value[2]]
    /\ params' = [params EXCEPT ![m].last = params[m].value]
    /\ UNCHANGED <<queue, state, animation, entered, format, call, failure, hours>>

\* Lamps and bars write a value only once.
WriteFreeLamp(m) ==
    /\ m # "tubes"
    /\ state[m] = "free_value"
    /\ params[m].value \notin {Nil, params[m].last}
    /\ shown' = [shown EXCEPT ![m] = params[m].value[2]]
    /\ params' = [params EXCEPT ![m].last = params[m].value]
    /\ UNCHANGED <<queue, state, animation, entered, format, call, failure, hours>>

\* The end of a countdown: the key say calls a method there is not, the key state a
\* handle_command with the state nil, which changes no state; without them the tubes
\* go back to the time.
CountedDown(m) ==
    \/ /\ params[m].options.atEnd = "say"
       /\ Fail("no class method")
       /\ params' = [params EXCEPT ![m].value = Num("seconds")]
       /\ call' = call
    \/ /\ params[m].options.atEnd = "state"
       /\ params' = [params EXCEPT ![m].value = Num("seconds"), ![m].state = Nil]
       /\ UNCHANGED <<call, failure>>
    \/ /\ params[m].options.atEnd = "nothing"
       /\ params' = [params EXCEPT ![m].value = Num("seconds")]
       /\ Call(m, SetState(Sym("time"), Nil))
       /\ failure' = failure

\* A write shows the time left when it changed, and then stores it in params[:value],
\* whatever the value is by now.  Without a target time it cannot be stored, and
\* before the first time state it cannot be padded to @tubes_count.
WriteCountdown(m) ==
    /\ state[m] = "countdown"
    /\ \/ /\ "countdown" \notin entered[m]
          /\ Fail("no target time")
          /\ UNCHANGED <<params, shown, call>>
       \/ /\ "countdown" \in entered[m]
          /\ format = Nil
          /\ Fail("no tubes count")
          /\ UNCHANGED <<params, shown, call>>
       \/ /\ "countdown" \in entered[m]
          /\ \/ shown' = shown
             \/ format # Nil /\ shown' = [shown EXCEPT ![m] = "digits"]
          /\ \/ /\ params' = [params EXCEPT ![m].value = Num("seconds")]
                /\ UNCHANGED <<call, failure>>
             \/ CountedDown(m)
    /\ UNCHANGED <<queue, state, animation, entered, format, hours>>

WriteMeetingTicker(m) ==
    /\ state[m] = "meeting_ticker"
    /\ \/ /\ "meeting_ticker" \notin entered[m]
          /\ Fail("no start time")
          /\ shown' = shown
       \/ /\ "meeting_ticker" \in entered[m]
          /\ format = Nil
          /\ Fail("no tubes count")
          /\ shown' = shown
       \/ /\ "meeting_ticker" \in entered[m]
          /\ format # Nil
          /\ shown' = [shown EXCEPT ![m] = "digits"]
          /\ failure' = failure
    /\ UNCHANGED <<queue, state, params, animation, entered, format, call, hours>>

WriteBlink(m) ==
    /\ state[m] = "blink"
    /\ \/ /\ "blink" \in entered[m]
          /\ \E v \in {"0", "1"} : shown' = [shown EXCEPT ![m] = v]
          /\ failure' = failure
       \/ /\ "blink" \notin entered[m]
          /\ Fail("no blink time")
          /\ shown' = shown
    /\ UNCHANGED <<queue, state, params, animation, entered, format, call, hours>>

\* Output \#(n - left) of an animation that ends on 0 for lamps and bars.
Output(m) ==
    IF m = "tubes" THEN "digits"
    ELSE IF animation[m].left % 2 = 0 THEN "1" ELSE "0"

\* Mutant: the animation never ends.
WriteAnimationForever(m) ==
    /\ state[m] = "animation"
    /\ animation' = [animation EXCEPT ![m].left = @ - 1]
    /\ shown' = [shown EXCEPT ![m] = Output(m)]
    /\ UNCHANGED <<queue, state, params, entered, format, call, failure, hours>>

\* The last write sends, once, the command to go to the next state.
WriteAnimation(m) ==
    /\ state[m] = "animation"
    /\ \/ /\ animation[m] = NoAnimation
          /\ Fail("Animation can't be empty!!")
          /\ UNCHANGED <<queue, animation, shown>>
       \/ /\ animation[m].left > 0
          /\ ~animation[m].driver
          /\ Fail("no driver")
          /\ UNCHANGED <<queue, animation, shown>>
       \/ /\ animation[m].left > 0
          /\ animation[m].driver
          /\ animation' = [animation EXCEPT ![m].left = @ - 1]
          /\ shown' = [shown EXCEPT ![m] = Output(m)]
          /\ UNCHANGED <<queue, failure>>
       \/ /\ animation[m].left = 0
          /\ ~animation[m].sent
          /\ animation' = [animation EXCEPT ![m].sent = TRUE]
          /\ Send(Post([to |-> m, cmd |-> SetState(animation[m].goto, Nil)]))
          /\ UNCHANGED <<shown, failure>>
    /\ UNCHANGED <<state, params, entered, format, call, hours>>

Write(m) ==
    /\ failure = "none"
    /\ call[m].at = "idle"
    /\ \/ WriteStartup(m) \/ WriteTime(m) \/ WriteFreeTubes(m) \/ WriteFreeLamp(m)
       \/ WriteCountdown(m) \/ WriteMeetingTicker(m) \/ WriteBlink(m) \/ WriteAnimation(m)
    /\ UNCHANGED <<locks, requests>>

----------------------------------------------------------------------------
\* The consumer and the senders

\* A command carries the lock itself; a locked receiver drops every message.
Locks(m) ==
    IF m.cmd.lock = Nil THEN locks
    ELSE IF m.cmd.lock = Str("lock") THEN locks \cup {m.to} ELSE locks \ {m.to}

\* handle_command_for: an invalid command, or one the validator fails on, is
\* dropped.
Accept(m) ==
    call' = IF Valid(m.to, m.cmd)
            THEN [call EXCEPT ![Consumer] = Handle(m.to, m.cmd, "read")]
            ELSE call

Deliver ==
    /\ failure = "none"
    /\ call[Consumer].at = "idle"
    /\ queue # << >>
    /\ queue' = Tail(queue)
    /\ LET m == Head(queue) IN
       \/ /\ m.to \in locks
          /\ UNCHANGED <<locks, call>>
       \/ /\ m.to \notin locks
          /\ locks' = Locks(m)
          /\ Accept(m)
    /\ UNCHANGED <<machineVars, failure, requests, hours>>

\* A post of the web server, or a job of the scheduler.
Request(m) ==
    /\ failure = "none"
    /\ requests > 0
    /\ requests' = requests - 1
    /\ Send(Post(m))
    /\ UNCHANGED <<locks, machineVars, call, failure, hours>>

Next ==
    \/ \E t \in Threads : CallStep(t)
    \/ \E m \in Polled : Write(m)
    \/ Deliver
    \/ \E m \in Requests : Request(m)

Spec == Init /\ [][Next]_vars

\* Every thread of the process keeps running and the broker delivers; nobody is
\* obliged to send a request, and no hour has to strike.
Fairness ==
    /\ \A t \in Threads : WF_vars(CallStep(t))
    /\ \A m \in Polled : WF_vars(Write(m))
    /\ WF_vars(Deliver)

FairSpec == Spec /\ Fairness

----------------------------------------------------------------------------
\* Properties

TypeOK ==
    /\ queue \in Seq(Message)
    /\ locks \subseteq {"tubes"} \cup Lamps \cup Bars
    /\ state \in [Machines -> States]
    /\ params \in [Machines -> [state : StateValues, value : Values, name : Names,
                                options : Options, last : Values]]
    /\ \A m \in Machines : state[m] = "animation" =>
           params[m].name # "none" /\ params[m].options # NoOptions
    /\ animation \in [Machines -> [left : 0 .. AnimationTicks, goto : GotoValues,
                                   sent : BOOLEAN, driver : BOOLEAN]]
    /\ entered \in [Machines -> SUBSET States]
    /\ format \in Values
    /\ shown \in [Machines -> Outputs]
    /\ call \in [Threads -> [at : Steps, on : Machines \cup {"none"}, cmd : Command,
                             current : StateValues]]
    /\ failure \in Failures
    /\ requests \in 0 .. RequestLimit
    /\ hours \in 0 .. HourLimit

\* Nobody is doing anything, and there is nothing to do for the consumer.
Quiet == failure = "none" /\ queue = << >> /\ \A t \in Threads : call[t].at = "idle"

\* The steady lamp of the clock is on whenever the tubes show the time and all is
\* quiet, in whatever order the consumer and the thread of the tubes took turns:
\* the last one to switch the tubes to the time queues the command that lights
\* the lamp after any command that darkens it (tube_state_machine.rb:41-52, 86-89).
LampFollowsTime ==
    Quiet /\ {"tubes", "lamp3"} \subseteq Machines /\ state["tubes"] = "time" =>
        params["lamp3"].value = Num("1")

\* When the tubes stay at the time, the steady lamp of the clock stays lit in the
\* end: neither its start-up animation, nor a value written before it, nor the
\* commands of other hours leave it dark.  That is so while nobody makes it blink: a
\* lamp that blinked is dark, and a value equal to the one before is not written
\* (tube_state_machine.rb:41-52, lamp_state_machine.rb:21-29, 47-49).
LampIsLit ==
    <>[](state["tubes"] = "time" /\ "blink" \notin entered["lamp3"] /\ failure = "none")
        => <>[](shown["lamp3"] = "1")

\* No two threads are in a handle_command at once.
OneAtATime == \A t, u \in Threads : call[t].at = "idle" \/ call[u].at = "idle" \/ t = u

\* "leaves the state if no more values to write" (animation.rb:32): an animation
\* that has written all its values is left, unless the process ends, and be it that
\* the threads never come between one another.
AnimationIsLeft ==
    []OneAtATime =>
        \A m \in Machines :
            state[m] = "animation" /\ animation[m].left = 0
                ~> state[m] # "animation" \/ failure # "none"

=============================================================================
