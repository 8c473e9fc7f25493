---------------------------- MODULE Display_proofs ----------------------------
(***************************************************************************)
(* The display keeps its types, and the steady lamp of the clock follows   *)
(* the time: for any machines, any requests to the tubes and to the other  *)
(* lamps and bars, and any order of the threads.                           *)
(***************************************************************************)
EXTENDS Display, TLAPS

\* What the machines other than the tubes can be told to become.
Elsewhere == {Str("free_value"), Str("blink"), Str("animation"), Sym("animation")}

\* Where a thread can be: it handles a command for a machine that is there,
\* lamps and bars have no other states than their own, and the threads of the
\* machines never bring a value.
Calls == [at : Steps, on : Machines \cup {"none"}, cmd : Command, current : StateValues]
Later == {"publish", "enter", "driver"}
Placed(t, c) ==
  /\ c \in Calls
  /\ c.at # "idle" => c.on \in Machines
  /\ c.at # "idle" /\ c.on # "tubes" => c.at \in Later \/ c.cmd.state \in Elsewhere
  /\ c.at \in {"leave", "switch"} => c.cmd.state # Nil
  /\ t # Consumer => c.cmd.value = Nil
Own == {"startup", "free_value", "blink", "animation"}

\* Messages to machines that are there.
Known(s) == s \in Seq(Message) /\ \A n \in 1..Len(s) : s[n].to \in Machines

CallInv  == DOMAIN call = Threads /\ call = [t \in Threads |-> call[t]] /\ \A t \in Threads : Placed(t, call[t])
StateInv == state \in [Machines -> States] /\ \A m \in Machines \ {"tubes"} : state[m] \in Own
Params   == [state : StateValues, value : Values, name : Names, options : Options, last : Values]
Anims    == [left : 0 .. AnimationTicks, goto : GotoValues, sent : BOOLEAN, driver : BOOLEAN]
MachInv  ==
  /\ params \in [Machines -> Params]
  /\ animation \in [Machines -> Anims]
  /\ entered \in [Machines -> SUBSET States]
  /\ format \in Values
  /\ shown \in [Machines -> Outputs]
RestInv  ==
  /\ locks \subseteq {"tubes"} \cup Lamps \cup Bars
  /\ failure \in Failures
  /\ requests \in 0 .. RequestLimit
  /\ hours \in 0 .. HourLimit

Inv == Known(queue) /\ CallInv /\ StateInv /\ MachInv /\ RestInv

-----------------------------------------------------------------------------
(* Values and commands *)

LEMMA ValueFacts ==
  /\ \A s \in Texts : Str(s) \in Values
  /\ \A s \in {"0", "1", "seconds"} : Num(s) \in Values
  /\ Nil \in Values /\ Nil \in StateValues /\ Nil \in GotoValues
  /\ NoOptions \in Options /\ "none" \in Names /\ \A o \in Options : o.goto \in GotoValues
  /\ \A s \in States : Str(s) \in StateValues /\ Sym(s) \in StateValues /\ Str(s) \in GotoValues
                       /\ Str(s) # Nil /\ Sym(s) # Nil /\ Str(s)[2] = s /\ Sym(s)[2] = s
  /\ \A v \in Values \ {Nil} : v[2] \in Outputs
  /\ \A v \in StateValues \ {Nil} : v[2] \in States
  /\ GotoValues \subseteq StateValues /\ Elsewhere \subseteq StateValues
<1>1. Nil \in Values /\ Nil \in StateValues /\ Nil \in GotoValues
  BY DEF Values, StateValues, GotoValues
<1>2. (\A s \in Texts : Str(s) \in Values) /\ \A s \in {"0", "1", "seconds"} : Num(s) \in Values
  BY DEF Values
<1>3. \A s \in States : /\ Str(s) \in StateValues /\ Sym(s) \in StateValues /\ Str(s) \in GotoValues
                        /\ Str(s) # Nil /\ Sym(s) # Nil /\ Str(s)[2] = s /\ Sym(s)[2] = s
  BY DEF StateValues, GotoValues, Str, Sym, Nil
<1>4. \A v \in Values \ {Nil} : v[2] \in Outputs
  BY DEF Values, Outputs, Texts, Str, Num
<1>5. \A v \in StateValues \ {Nil} : v[2] \in States
  BY <1>3 DEF StateValues, GotoValues
<1>6. GotoValues \subseteq StateValues /\ Elsewhere \subseteq StateValues
  <2>1. {"free_value", "blink", "animation"} \subseteq States
    BY DEF States
  <2>. QED
    BY <1>3, <2>1 DEF StateValues, Elsewhere
<1>7. NoOptions \in Options /\ "none" \in Names /\ \A o \in Options : o.goto \in GotoValues
  BY <1>1 DEF NoOptions, Options, Names
<1>. QED
  BY <1>1, <1>2, <1>3, <1>4, <1>5, <1>6, <1>7

LEMMA CommandFacts ==
  ASSUME NEW s \in StateValues, NEW v \in Values
  PROVE  /\ SetState(s, v) \in Command
         /\ SetState(s, v).state = s /\ SetState(s, v).value = v /\ SetState(s, v).lock = Nil
  BY ValueFacts DEF SetState, Command

LEMMA HandleFacts ==
  ASSUME NEW m \in Machines \cup {"none"}, NEW c \in Command, NEW at \in Steps
  PROVE  /\ Handle(m, c, at) \in [at : Steps, on : Machines \cup {"none"}, cmd : Command, current : StateValues]
         /\ Handle(m, c, at).at = at /\ Handle(m, c, at).on = m /\ Handle(m, c, at).cmd = c
  BY ValueFacts DEF Handle

LEMMA NoCallFacts ==
  /\ NoCall \in [at : Steps, on : Machines \cup {"none"}, cmd : Command, current : StateValues]
  /\ NoCall.at = "idle" /\ NoCall.cmd.value = Nil
<1>1. SetState(Nil, Nil) \in Command /\ SetState(Nil, Nil).value = Nil
  BY ValueFacts, CommandFacts
<1>2. "idle" \in Steps /\ "none" \in Machines \cup {"none"}
  BY DEF Steps
<1>. QED
  BY <1>1, <1>2, HandleFacts DEF NoCall

\* Commands that the machines send each other.
LEMMA FreeFacts ==
  ASSUME NEW v \in {Num("0"), Num("1")}, NEW m \in Lamps
  PROVE  /\ Free(m, v) \in Message /\ Free(m, v).to = m
         /\ Free(m, v).cmd.value = v /\ Free(m, v).cmd.state = Str("free_value") /\ Free(m, v).cmd.lock = Nil
<1>1. v \in Values /\ Str("free_value") \in StateValues
  BY ValueFacts DEF States
<1>2. SetState(Str("free_value"), v) \in Command
  BY <1>1, CommandFacts
<1>. QED
  BY <1>2 DEF Free, Message, SetState

-----------------------------------------------------------------------------
(* Messages on the queue *)

LEMMA PostKnown ==
  ASSUME NEW m \in Message
  PROVE  Known(Post(m))
  BY DEF Known, Post

LEMMA CatKnown ==
  ASSUME NEW a, NEW b, Known(a), Known(b)
  PROVE  Known(a \o b)
<1>1. a \in Seq(Message) /\ b \in Seq(Message)
  BY DEF Known
<1>2. a \o b \in Seq(Message) /\ Len(a \o b) = Len(a) + Len(b) /\ Len(a) \in Nat /\ Len(b) \in Nat
  BY <1>1
<1>3. \A n \in 1..Len(a \o b) : (a \o b)[n] = IF n <= Len(a) THEN a[n] ELSE b[n - Len(a)]
  BY <1>1
<1>4. ASSUME NEW n \in 1..Len(a \o b) PROVE (a \o b)[n].to \in Machines
  <2>1. CASE n <= Len(a)
    <3>1. n \in 1..Len(a)
      BY <1>2, <2>1
    <3>. QED
      BY <1>3, <2>1, <3>1 DEF Known
  <2>2. CASE ~(n <= Len(a))
    <3>1. n - Len(a) \in 1..Len(b)
      BY <1>2, <2>2
    <3>. QED
      BY <1>3, <2>2, <3>1 DEF Known
  <2>. QED
    BY <2>1, <2>2
<1>. QED
  BY <1>2, <1>4 DEF Known

LEMMA DarkKnown ==
  ASSUME NEW m \in Lamps
  PROVE  Known(Dark(m))
  BY FreeFacts, PostKnown DEF Dark

\* What the machines send, the first of the threads, the time and its end.
LightsOfTime ==
  Dark("lamp0") \o Dark("lamp1") \o Dark("lamp2") \o Post(Free("lamp3", Num("1")))
  \o Post([to |-> "lamp4", cmd |-> SetState(Str("blink"), Nil)])

LEMMA SentKnown ==
  /\ Known(<<>>) /\ Known(ClockLampsOff) /\ Known(LightsOfTime)
  /\ Known(Dark("lamp0") \o Dark("lamp1") \o Dark("lamp2") \o Dark("lamp3") \o Dark("lamp4"))
  /\ \A m \in Machines, g \in GotoValues : Known(Post([to |-> m, cmd |-> SetState(g, Nil)]))
<1>1. Known(<<>>)
  BY DEF Known
<1>2. /\ Known(Dark("lamp0")) /\ Known(Dark("lamp1")) /\ Known(Dark("lamp2"))
      /\ Known(Dark("lamp3")) /\ Known(Dark("lamp4"))
  BY DarkKnown DEF Lamps
<1>3. Known(ClockLampsOff)
  BY <1>2, CatKnown DEF ClockLampsOff
<1>4. Known(Dark("lamp0") \o Dark("lamp1")) /\ Known(Dark("lamp0") \o Dark("lamp1") \o Dark("lamp2"))
  <2>1. Known(Dark("lamp0") \o Dark("lamp1"))
    BY <1>2, CatKnown
  <2>. QED
    BY <1>2, <2>1, CatKnown
<1>5. Known(Dark("lamp0") \o Dark("lamp1") \o Dark("lamp2") \o Dark("lamp3") \o Dark("lamp4"))
  <2>1. Known(Dark("lamp0") \o Dark("lamp1") \o Dark("lamp2") \o Dark("lamp3"))
    BY <1>2, <1>4, CatKnown
  <2>. QED
    BY <1>2, <2>1, CatKnown
<1>6. ASSUME NEW m \in {"tubes"} \cup Lamps \cup Bars, NEW g \in StateValues
      PROVE  Known(Post([to |-> m, cmd |-> SetState(g, Nil)]))
  <2>1. SetState(g, Nil) \in Command
    BY ValueFacts, CommandFacts
  <2>2. [to |-> m, cmd |-> SetState(g, Nil)] \in Message
    BY <2>1 DEF Message
  <2>. QED
    BY <2>2, PostKnown
<1>7. Known(LightsOfTime)
  <2>1. Known(Post(Free("lamp3", Num("1"))))
    BY FreeFacts, PostKnown DEF Lamps
  <2>2. Known(Post([to |-> "lamp4", cmd |-> SetState(Str("blink"), Nil)]))
    BY <1>6, ValueFacts DEF Lamps, States
  <2>3. Known(Dark("lamp0") \o Dark("lamp1") \o Dark("lamp2") \o Post(Free("lamp3", Num("1"))))
    BY <1>4, <2>1, CatKnown
  <2>. QED
    BY <2>2, <2>3, CatKnown DEF LightsOfTime
<1>8. Machines \subseteq {"tubes"} \cup Lamps \cup Bars /\ GotoValues \subseteq StateValues
  BY DisplayAssumption, ValueFacts
<1>. QED
  BY <1>1, <1>3, <1>5, <1>6, <1>7, <1>8

-----------------------------------------------------------------------------
(* The steps of handle_command *)

LEMMA TubesAre == Consumer \notin Machines /\ Machines \subseteq Threads /\ Consumer \in Threads
  BY DisplayAssumption DEF Consumer, Threads, Lamps, Bars

\* A thread changes nothing but its own call.
LEMMA OneCall ==
  ASSUME CallInv, NEW t \in Threads, NEW c, Placed(t, c), call' = [call EXCEPT ![t] = c]
  PROVE  CallInv'
<1>. call = [u \in Threads |-> call[u]] /\ \A u \in Threads : Placed(u, call[u])
  BY DEF CallInv
<1>1. call' = [u \in Threads |-> IF u = t THEN c ELSE call[u]]
  OBVIOUS
<1>2. \A u \in Threads : Placed(u, call'[u])
  BY <1>1
<1>3. DOMAIN call' = Threads /\ call' = [u \in Threads |-> call'[u]]
  BY <1>1
<1>4. \A u \in Threads : Placed(u, call[u])'
  BY <1>2 DEF Placed, Calls
<1>. QED
  BY <1>3, <1>4 DEF CallInv

LEMMA GotoFacts ==
  ASSUME NEW c \in Calls, NEW at \in Steps
  PROVE  /\ [c EXCEPT !.at = at] \in Calls
         /\ [c EXCEPT !.at = at].at = at /\ [c EXCEPT !.at = at].on = c.on
         /\ [c EXCEPT !.at = at].cmd = c.cmd
  BY DEF Calls

\* A call that ends.
LEMMA Returned ==
  ASSUME CallInv, NEW t \in Threads, Return(t)
  PROVE  CallInv'
<1>1. Placed(t, NoCall)
  BY NoCallFacts DEF Placed, Calls
<1>. QED
  BY <1>1, OneCall DEF Return

\* The same call, further on.
LEMMA WentOn ==
  ASSUME CallInv, NEW t \in Threads, NEW at \in Steps, Goto(t, at),
         call[t].at \in Steps \ {"idle"}, at # "idle",
         at \in Later \/ call[t].at \notin Later,
         at \in {"leave", "switch"} => call[t].cmd.state # Nil
  PROVE  CallInv'
<1>. DEFINE c == [call[t] EXCEPT !.at = at]
<1>1. Placed(t, call[t]) /\ call[t] \in Calls
  BY DEF CallInv, Placed
<1>2. c \in Calls /\ c.at = at /\ c.on = call[t].on /\ c.cmd = call[t].cmd
  BY <1>1, GotoFacts
<1>3. call' = [call EXCEPT ![t] = c]
  BY DEF Goto, CallInv
<1>. HIDE DEF c
<1>4. Placed(t, c)
  BY <1>1, <1>2 DEF Placed
<1>. QED
  BY <1>3, <1>4, OneCall

LEMMA ReadStateKeeps ==
  ASSUME Inv, NEW t \in Threads, ReadState(t)
  PROVE  CallInv'
<1>. DEFINE c == [call[t] EXCEPT !.at = "merge", !.current = params[call[t].on].state]
<1>1. Placed(t, call[t]) /\ call[t] \in Calls /\ call[t].at = "read" /\ call[t].on \in Machines
  BY DEF Inv, CallInv, Placed, ReadState
<1>2. params[call[t].on].state \in StateValues
  BY <1>1 DEF Inv, MachInv, Params
<1>3. c \in Calls /\ c.at = "merge" /\ c.on = call[t].on /\ c.cmd = call[t].cmd
  BY <1>1, <1>2 DEF Calls, Steps
<1>4. call' = [call EXCEPT ![t] = c]
  BY DEF ReadState, Inv, CallInv
<1>. HIDE DEF c
<1>5. Placed(t, c)
  BY <1>1, <1>3 DEF Placed, Later
<1>. QED
  BY <1>4, <1>5, OneCall DEF Inv

\* params.merge! with a command that is well typed.
LEMMA MergedFacts ==
  ASSUME NEW p \in Params, NEW c \in Command
  PROVE  /\ Merged(p, c) \in Params
         /\ Merged(p, c).value = IF c.value = Nil THEN p.value ELSE c.value
  BY DEF Params, Command, Merged

LEMMA MergeParamsKeeps ==
  ASSUME Inv, NEW t \in Threads, MergeParams(t)
  PROVE  CallInv' /\ params' \in [Machines -> Params]
<1>1. Placed(t, call[t]) /\ call[t] \in Calls /\ call[t].at = "merge" /\ call[t].on \in Machines
      /\ call[t].cmd \in Command /\ call[t].cmd.state \in StateValues
  BY DEF Inv, CallInv, Placed, MergeParams, Calls, Command
<1>2. params' \in [Machines -> Params]
  <2>1. params \in [Machines -> Params]
    BY DEF Inv, MachInv
  <2>2. Merged(params[call[t].on], call[t].cmd) \in Params
    BY <1>1, <2>1, MergedFacts
  <2>3. params' = [params EXCEPT ![call[t].on] = Merged(params[call[t].on], call[t].cmd)]
    BY DEF MergeParams
  <2>. QED
    BY <1>1, <2>1, <2>2, <2>3
<1>3. CASE call[t].cmd.state \in {Nil, call[t].current}
  BY <1>2, <1>3, Returned DEF MergeParams, Inv
<1>4. CASE call[t].cmd.state \notin {Nil, call[t].current}
  <2>. DEFINE c == Handle(call[t].on, SetState(call[t].cmd.state, Nil), "leave")
  <2>1. call' = [call EXCEPT ![t] = c]
    BY <1>4 DEF MergeParams
  <2>2. SetState(call[t].cmd.state, Nil) \in Command
        /\ SetState(call[t].cmd.state, Nil).state = call[t].cmd.state
        /\ SetState(call[t].cmd.state, Nil).value = Nil
    BY <1>1, ValueFacts, CommandFacts
  <2>3. c \in Calls /\ c.at = "leave" /\ c.on = call[t].on /\ c.cmd = SetState(call[t].cmd.state, Nil)
    BY <1>1, <2>2, HandleFacts DEF Calls, Steps
  <2>. HIDE DEF c
  <2>4. Placed(t, c)
    BY <1>1, <1>4, <2>2, <2>3 DEF Placed, Later
  <2>5. CallInv'
    BY <2>1, <2>4, OneCall DEF Inv
  <2>. QED
    BY <1>2, <2>5
<1>. QED
  BY <1>2, <1>3, <1>4

\* leave_state and enter_state of the time send what is known.
LEMMA SendKnown ==
  ASSUME Known(queue), NEW s, Known(s), Send(s)
  PROVE  Known(queue)'
<1>1. Known(queue \o s)
  BY CatKnown
<1>. QED
  BY <1>1 DEF Send, Known

LEMMA LeaveStateKeeps ==
  ASSUME Inv, NEW t \in Threads, LeaveState(t)
  PROVE  CallInv' /\ Known(queue)' /\ shown' \in [Machines -> Outputs]
<1>1. Placed(t, call[t]) /\ call[t].at = "leave" /\ call[t].on \in Machines
  BY DEF Inv, CallInv, Placed, LeaveState
<1>2. CallInv'
  <2>1. call[t].cmd.state # Nil
    BY <1>1 DEF Placed
  <2>. QED
    BY <1>1, <2>1, WentOn DEF LeaveState, Steps, Later, Inv
<1>3. Known(queue)'
  <2>1. Known(IF state[call[t].on] = "time" THEN ClockLampsOff ELSE << >>)
    BY SentKnown
  <2>. QED
    BY <2>1, SendKnown DEF LeaveState, Inv
<1>4. shown' \in [Machines -> Outputs]
  BY <1>1 DEF LeaveState, BlinkOff, Inv, MachInv, Outputs, Texts
<1>. QED
  BY <1>2, <1>3, <1>4

LEMMA SwitchStateKeeps ==
  ASSUME Inv, NEW t \in Threads, SwitchState(t)
  PROVE  CallInv' /\ StateInv'
<1>1. Placed(t, call[t]) /\ call[t].at = "switch" /\ call[t].on \in Machines
      /\ call[t].cmd.state \in StateValues \ {Nil}
      /\ (call[t].on # "tubes" => call[t].cmd.state \in Elsewhere)
  BY DEF Inv, CallInv, Placed, Later, SwitchState, Calls, Command
<1>2. CallInv'
  BY <1>1, WentOn DEF SwitchState, Steps, Later, Inv
<1>3. call[t].cmd.state[2] \in States
  BY <1>1, ValueFacts
<1>4. call[t].on # "tubes" => call[t].cmd.state[2] \in Own
  BY <1>1 DEF Elsewhere, Own, Str, Sym
<1>5. state' = [state EXCEPT ![call[t].on] = call[t].cmd.state[2]]
  BY DEF SwitchState
<1>6. state \in [Machines -> States] /\ \A m \in Machines \ {"tubes"} : state[m] \in Own
  BY DEF Inv, StateInv
<1>7. state' \in [Machines -> States]
  BY <1>1, <1>3, <1>5, <1>6
<1>8. \A m \in Machines \ {"tubes"} : state'[m] \in Own
  BY <1>4, <1>5, <1>6
<1>. QED
  BY <1>2, <1>7, <1>8 DEF StateInv

LEMMA PublishStateKeeps ==
  ASSUME Inv, NEW t \in Threads, PublishState(t)
  PROVE  CallInv' /\ params' \in [Machines -> Params]
<1>1. call[t].at = "publish" /\ call[t].on \in Machines
  BY DEF Inv, CallInv, Placed, PublishState
<1>2. CallInv'
  BY <1>1, WentOn DEF PublishState, Steps, Later, Inv
<1>3. Str(state[call[t].on]) \in StateValues
  BY <1>1, ValueFacts DEF Inv, StateInv
<1>4. params \in [Machines -> Params] /\ params[call[t].on] \in Params
  BY <1>1 DEF Inv, MachInv
<1>5. [params[call[t].on] EXCEPT !.state = Str(state[call[t].on])] \in Params
  BY <1>3, <1>4 DEF Params
<1>6. params' = [params EXCEPT ![call[t].on] = [params[call[t].on] EXCEPT !.state = Str(state[call[t].on])]]
  BY <1>1, <1>4 DEF PublishState
<1>7. params' \in [Machines -> Params]
  BY <1>1, <1>4, <1>5, <1>6
<1>. QED
  BY <1>2, <1>7

-----------------------------------------------------------------------------
(* enter_state *)

LEMMA EnterTimeKeeps ==
  ASSUME Inv, NEW t \in Threads, "tubes" \in Machines, EnterTime(t)
  PROVE  CallInv' /\ Known(queue)' /\ format' \in Values
<1>1. CallInv'
  BY Returned DEF EnterTime, Inv
<1>2. Known(queue)'
  BY SentKnown, SendKnown DEF EnterTime, LightsOfTime, Inv
<1>3. format' \in Values
  <2>1. Str("format") \in Values
    BY ValueFacts DEF Texts
  <2>2. params["tubes"].value \in Values
    BY DEF Inv, MachInv, Params
  <2>. QED
    BY <2>1, <2>2 DEF EnterTime
<1>. QED
  BY <1>1, <1>2, <1>3

LEMMA EnterAnimationKeeps ==
  ASSUME Inv, NEW t \in Threads, call[t].at = "enter", call[t].on \in Machines, EnterAnimation(t)
  PROVE  CallInv' /\ animation' \in [Machines -> Anims] /\ failure' \in Failures
<1>1. failure \in Failures /\ animation \in [Machines -> Anims] /\ "no such animation" \in Failures
  BY DEF Inv, RestInv, MachInv, Failures
<1>2. CASE Return(t) /\ UNCHANGED animation
  BY <1>1, <1>2, Returned DEF EnterAnimation, Inv
<1>3. CASE /\ animation' = [animation EXCEPT ![call[t].on] =
                             [left |-> AnimationTicks, goto |-> params[call[t].on].options.goto,
                              sent |-> FALSE, driver |-> FALSE]]
           /\ Goto(t, "driver")
           /\ failure' = failure
  <2>1. CallInv'
    BY <1>3, WentOn DEF Steps, Later, Inv
  <2>2. params[call[t].on].options.goto \in GotoValues /\ AnimationTicks \in Nat
    BY DisplayAssumption, ValueFacts DEF Inv, MachInv, Params
  <2>3. [left |-> AnimationTicks, goto |-> params[call[t].on].options.goto,
         sent |-> FALSE, driver |-> FALSE] \in Anims
    BY <2>2 DEF Anims
  <2>. QED
    BY <1>1, <1>3, <2>1, <2>3
<1>. QED
  BY <1>2, <1>3 DEF EnterAnimation

LEMMA UseDriverKeeps ==
  ASSUME Inv, NEW t \in Threads, UseDriver(t)
  PROVE  CallInv' /\ animation' \in [Machines -> Anims]
<1>1. CallInv'
  BY Returned DEF UseDriver, Inv
<1>2. call[t].on \in Machines /\ animation \in [Machines -> Anims] /\ animation[call[t].on] \in Anims
  BY DEF UseDriver, Inv, CallInv, Placed, MachInv
<1>3. [animation[call[t].on] EXCEPT !.driver = TRUE] \in Anims
  BY <1>2 DEF Anims
<1>4. animation' = [animation EXCEPT ![call[t].on] = [animation[call[t].on] EXCEPT !.driver = TRUE]]
  BY <1>2 DEF UseDriver
<1>. QED
  BY <1>1, <1>2, <1>3, <1>4

\* params[:value] is set.
LEMMA ValueSet ==
  ASSUME params \in [Machines -> Params], NEW m \in Machines, NEW v \in Values,
         params' = [params EXCEPT ![m].value = v]
  PROVE  params' \in [Machines -> Params]
<1>1. [params[m] EXCEPT !.value = v] \in Params
  BY DEF Params
<1>. QED
  BY <1>1

LEMMA EnterCountdownKeeps ==
  ASSUME Inv, NEW t \in Threads, "tubes" \in Machines, EnterCountdown(t)
  PROVE  CallInv' /\ params' \in [Machines -> Params] /\ entered' \in [Machines -> SUBSET States]
<1>1. CallInv'
  BY Returned DEF EnterCountdown, Inv
<1>2. params' \in [Machines -> Params]
  <2>1. params \in [Machines -> Params] /\ params["tubes"].value \in Values
    BY DEF Inv, MachInv, Params
  <2>2. Parsed(params["tubes"].value) \in Values
    BY <2>1, ValueFacts DEF Parsed
  <2>3. params' = [params EXCEPT !["tubes"].value = Parsed(params["tubes"].value)]
    BY <2>1 DEF EnterCountdown
  <2>. QED
    BY <2>1, <2>2, <2>3, ValueSet
<1>3. entered' \in [Machines -> SUBSET States]
  BY DEF EnterCountdown, Inv, MachInv, States
<1>. QED
  BY <1>1, <1>2, <1>3

LEMMA EnterMeetingTickerKeeps ==
  ASSUME Inv, NEW t \in Threads, "tubes" \in Machines, EnterMeetingTicker(t)
  PROVE  CallInv' /\ entered' \in [Machines -> SUBSET States]
<1>. DEFINE v == params["tubes"].value
<1>1. CASE v = Str("rate") \/ ~IsString(v)
  <2>1. CallInv'
    BY <1>1, Returned DEF EnterMeetingTicker, Inv
  <2>2. entered' \in [Machines -> SUBSET States]
    BY <1>1 DEF EnterMeetingTicker, Inv, MachInv, States
  <2>. QED
    BY <2>1, <2>2
<1>2. CASE ~(v = Str("rate") \/ ~IsString(v))
  <2>. DEFINE c == Handle("tubes", SetState(Sym("time"), Nil), "read")
  <2>1. call' = [call EXCEPT ![t] = c] /\ entered' = entered
    BY <1>2 DEF EnterMeetingTicker
  <2>2. SetState(Sym("time"), Nil) \in Command /\ SetState(Sym("time"), Nil).value = Nil
    BY ValueFacts, CommandFacts DEF States
  <2>3. c \in Calls /\ c.at = "read" /\ c.on = "tubes" /\ c.cmd = SetState(Sym("time"), Nil)
    BY <2>2, HandleFacts DEF Calls, Steps
  <2>. HIDE DEF c
  <2>4. Placed(t, c)
    BY <2>2, <2>3 DEF Placed
  <2>5. CallInv'
    BY <2>1, <2>4, OneCall DEF Inv
  <2>. QED
    BY <2>1, <2>5 DEF Inv, MachInv
<1>. QED
  BY <1>1, <1>2

LEMMA EnterBlinkKeeps ==
  ASSUME Inv, NEW t \in Threads, call[t].on \in Machines, EnterBlink(t)
  PROVE  CallInv' /\ entered' \in [Machines -> SUBSET States]
<1>1. CallInv'
  BY Returned DEF EnterBlink, Inv
<1>2. entered' \in [Machines -> SUBSET States]
  BY DEF EnterBlink, Inv, MachInv, States
<1>. QED
  BY <1>1, <1>2

\* In the time, the countdown and the meeting ticker it is the tubes.
LEMMA OnlyTubes ==
  ASSUME Inv, NEW m \in Machines, state[m] \in {"time", "countdown", "meeting_ticker"}
  PROVE  m = "tubes"
  BY DEF Inv, StateInv, Own

LEMMA EnterStateKeeps ==
  ASSUME Inv, NEW t \in Threads, EnterState(t), UNCHANGED <<locks, requests, hours>>
  PROVE  Inv'
<1>1. call[t].at = "enter" /\ call[t].on \in Machines
  BY DEF Inv, CallInv, Placed, EnterState
<1>. DEFINE s == state[call[t].on]
<1>2. failure' = failure => RestInv'
  BY DEF Inv, RestInv
<1>3. CASE s = "time" /\ EnterTime(t) /\ failure' = failure
  <2>1. CallInv' /\ Known(queue)' /\ format' \in Values
    BY <1>1, <1>3, OnlyTubes, EnterTimeKeeps
  <2>. QED
    BY <1>2, <1>3, <2>1 DEF EnterTime, Inv, StateInv, MachInv
<1>4. CASE s = "animation" /\ EnterAnimation(t)
  <2>1. CallInv' /\ animation' \in [Machines -> Anims] /\ failure' \in Failures
    BY <1>1, <1>4, EnterAnimationKeeps
  <2>. QED
    BY <1>4, <2>1 DEF EnterAnimation, Inv, StateInv, MachInv, RestInv, Known
<1>5. CASE s = "countdown" /\ EnterCountdown(t) /\ failure' = failure
  <2>1. CallInv' /\ params' \in [Machines -> Params] /\ entered' \in [Machines -> SUBSET States]
    BY <1>1, <1>5, OnlyTubes, EnterCountdownKeeps
  <2>. QED
    BY <1>2, <1>5, <2>1 DEF EnterCountdown, Inv, StateInv, MachInv, Known
<1>6. CASE s = "meeting_ticker" /\ EnterMeetingTicker(t) /\ failure' = failure
  <2>1. CallInv' /\ entered' \in [Machines -> SUBSET States]
    BY <1>1, <1>6, OnlyTubes, EnterMeetingTickerKeeps
  <2>. QED
    BY <1>2, <1>6, <2>1 DEF EnterMeetingTicker, Inv, StateInv, MachInv, Known
<1>7. CASE s = "blink" /\ EnterBlink(t) /\ failure' = failure
  <2>1. CallInv' /\ entered' \in [Machines -> SUBSET States]
    BY <1>1, <1>7, EnterBlinkKeeps
  <2>. QED
    BY <1>2, <1>7, <2>1 DEF EnterBlink, Inv, StateInv, MachInv, Known
<1>8. CASE Return(t) /\ UNCHANGED <<queue, machineVars>> /\ failure' = failure
  <2>1. CallInv'
    BY <1>8, Returned DEF Inv
  <2>. QED
    BY <1>2, <1>8, <2>1 DEF machineVars, Inv, StateInv, MachInv, Known
<1>. QED
  BY <1>3, <1>4, <1>5, <1>6, <1>7, <1>8 DEF EnterState, EnterOther

LEMMA CallStepKeeps ==
  ASSUME Inv, NEW t \in Threads, CallStep(t)
  PROVE  Inv'
<1>1. UNCHANGED <<locks, requests, hours>>
  BY DEF CallStep
<1>2. failure' = failure => RestInv'
  BY <1>1 DEF Inv, RestInv
<1>3. CASE ReadState(t) /\ failure' = failure
  BY <1>2, <1>3, ReadStateKeeps DEF ReadState, machineVars, Inv, StateInv, MachInv, Known
<1>4. CASE MergeParams(t) /\ failure' = failure
  BY <1>2, <1>4, MergeParamsKeeps DEF MergeParams, Inv, StateInv, MachInv, Known
<1>5. CASE LeaveState(t) /\ failure' = failure
  BY <1>2, <1>5, LeaveStateKeeps DEF LeaveState, Inv, StateInv, MachInv
<1>6. CASE SwitchState(t) /\ failure' = failure
  BY <1>2, <1>6, SwitchStateKeeps DEF SwitchState, Inv, MachInv, Known
<1>7. CASE PublishState(t) /\ failure' = failure
  BY <1>2, <1>7, PublishStateKeeps DEF PublishState, Inv, StateInv, MachInv, Known
<1>8. CASE EnterState(t)
  BY <1>1, <1>8, EnterStateKeeps
<1>9. CASE UseDriver(t) /\ failure' = failure
  BY <1>2, <1>9, UseDriverKeeps DEF UseDriver, Inv, StateInv, MachInv, Known
<1>. QED
  BY <1>3, <1>4, <1>5, <1>6, <1>7, <1>8, <1>9 DEF CallStep

-----------------------------------------------------------------------------
(* The threads of the machines *)

\* The machine calls itself, in its own thread.
LEMMA Called ==
  ASSUME CallInv, NEW m \in Machines, NEW c \in Command, c.value = Nil, Call(m, c),
         m # "tubes" => c.state \in Elsewhere
  PROVE  CallInv'
<1>. DEFINE h == Handle(m, c, "read")
<1>1. call' = [call EXCEPT ![m] = h]
  BY DEF Call
<1>2. h \in Calls /\ h.at = "read" /\ h.on = m /\ h.cmd = c
  BY HandleFacts DEF Calls, Steps
<1>. HIDE DEF h
<1>3. Placed(m, h)
  BY <1>2 DEF Placed
<1>. QED
  BY <1>1, <1>3, TubesAre, OneCall

LEMMA StartAnimationKeeps ==
  ASSUME Inv, NEW m \in Machines, NEW g \in GotoValues, StartAnimation(m, g)
  PROVE  CallInv' /\ params' \in [Machines -> Params]
<1>1. CallInv'
  <2>1. /\ SetState(Sym("animation"), Nil) \in Command
        /\ SetState(Sym("animation"), Nil).state = Sym("animation")
        /\ SetState(Sym("animation"), Nil).value = Nil
    BY ValueFacts, CommandFacts DEF States
  <2>. QED
    BY <2>1, Called DEF StartAnimation, Inv, Elsewhere
<1>2. params' \in [Machines -> Params]
  <2>1. params \in [Machines -> Params] /\ params[m] \in Params
    BY DEF Inv, MachInv
  <2>2. "known" \in Names /\ [goto |-> g, atEnd |-> "nothing"] \in Options
    BY DEF Names, Options
  <2>3. [params[m] EXCEPT !.name = "known", !.options = [goto |-> g, atEnd |-> "nothing"]] \in Params
    BY <2>1, <2>2 DEF Params
  <2>4. params' = [params EXCEPT ![m] = [params[m] EXCEPT !.name = "known",
                                           !.options = [goto |-> g, atEnd |-> "nothing"]]]
    BY <2>1 DEF StartAnimation
  <2>. QED
    BY <2>1, <2>3, <2>4
<1>. QED
  BY <1>1, <1>2

LEMMA FailureFacts ==
  \A e \in {"no format", "value is no string", "no target time", "no tubes count",
            "no start time", "no blink time", "no class method", "no driver",
            "Animation can't be empty!!"} : e \in Failures
  BY DEF Failures

LEMMA WriteStartupKeeps ==
  ASSUME Inv, NEW m \in Machines, WriteStartup(m), UNCHANGED <<locks, requests>>
  PROVE  Inv'
<1>1. Str(IF m = "tubes" THEN "time" ELSE "free_value") \in GotoValues
  BY ValueFacts DEF States
<1>2. CallInv' /\ params' \in [Machines -> Params]
  BY <1>1, StartAnimationKeeps DEF WriteStartup
<1>. QED
  BY <1>2 DEF WriteStartup, Inv, StateInv, MachInv, RestInv, Known

LEMMA WriteTimeKeeps ==
  ASSUME Inv, NEW m \in Machines, WriteTime(m), UNCHANGED <<locks, requests>>
  PROVE  Inv'
<1>1. CASE format = Nil /\ Fail("no format") /\ UNCHANGED <<params, call, shown, hours>>
  BY <1>1, FailureFacts DEF WriteTime, Fail, Inv, CallInv, Placed, StateInv, MachInv, RestInv, Known
<1>2. CASE format # Nil /\ shown' = [shown EXCEPT ![m] = "digits"] /\ UNCHANGED <<params, call, failure, hours>>
  <2>1. "digits" \in Outputs
    BY DEF Outputs, Texts
  <2>. QED
    BY <1>2, <2>1 DEF WriteTime, Inv, CallInv, Placed, StateInv, MachInv, RestInv, Known
<1>3. CASE hours > 0 /\ hours' = hours - 1 /\ StartAnimation(m, Str("time")) /\ UNCHANGED <<shown, failure>>
  <2>1. Str("time") \in GotoValues
    BY ValueFacts DEF States
  <2>2. CallInv' /\ params' \in [Machines -> Params]
    BY <1>3, <2>1, StartAnimationKeeps
  <2>3. hours' \in 0 .. HourLimit
    BY <1>3, DisplayAssumption DEF Inv, RestInv
  <2>. QED
    BY <1>3, <2>2, <2>3 DEF WriteTime, Inv, StateInv, MachInv, RestInv, Known
<1>. QED
  BY <1>1, <1>2, <1>3 DEF WriteTime

LEMMA WriteFreeTubesKeeps ==
  ASSUME Inv, NEW m \in Machines, WriteFreeTubes(m), UNCHANGED <<locks, requests>>
  PROVE  Inv'
<1>1. CallInv'
  BY DEF WriteFreeTubes, Inv, CallInv, Placed
<1>2. failure' \in Failures
  BY FailureFacts DEF WriteFreeTubes, Fail, Inv, RestInv
<1>3. shown' \in [Machines -> Outputs]
  <2>1. "digits" \in Outputs
    BY DEF Outputs, Texts
  <2>. QED
    BY <2>1 DEF WriteFreeTubes, Inv, MachInv
<1>. QED
  BY <1>1, <1>2, <1>3 DEF WriteFreeTubes, Inv, StateInv, MachInv, RestInv, Known

LEMMA WriteFreeLampKeeps ==
  ASSUME Inv, NEW m \in Machines, WriteFreeLamp(m), UNCHANGED <<locks, requests>>
  PROVE  Inv'
<1>1. CallInv'
  BY DEF WriteFreeLamp, Inv, CallInv, Placed
<1>2. params \in [Machines -> Params] /\ params[m] \in Params /\ params[m].value \in Values \ {Nil}
  BY DEF WriteFreeLamp, Inv, MachInv, Params
<1>3. shown' \in [Machines -> Outputs]
  <2>1. params[m].value[2] \in Outputs
    BY <1>2, ValueFacts
  <2>. QED
    BY <2>1 DEF WriteFreeLamp, Inv, MachInv
<1>4. params' \in [Machines -> Params]
  <2>1. [params[m] EXCEPT !.last = params[m].value] \in Params
    BY <1>2 DEF Params
  <2>. QED
    BY <1>2, <2>1 DEF WriteFreeLamp
<1>. QED
  BY <1>1, <1>3, <1>4 DEF WriteFreeLamp, Inv, StateInv, MachInv, RestInv, Known

LEMMA CountedDownKeeps ==
  ASSUME Inv, NEW m \in Machines, m = "tubes", CountedDown(m)
  PROVE  CallInv' /\ params' \in [Machines -> Params] /\ failure' \in Failures
<1>1. Num("seconds") \in Values /\ Nil \in StateValues
  BY ValueFacts
<1>2. failure' \in Failures
  BY FailureFacts DEF CountedDown, Fail, Inv, RestInv
<1>3. params' \in [Machines -> Params]
  <2>1. params \in [Machines -> Params] /\ params[m] \in Params
    BY DEF Inv, MachInv
  <2>2. CASE params' = [params EXCEPT ![m].value = Num("seconds")]
    BY <1>1, <2>1, <2>2, ValueSet
  <2>3. CASE params' = [params EXCEPT ![m].value = Num("seconds"), ![m].state = Nil]
    <3>1. [params[m] EXCEPT !.value = Num("seconds"), !.state = Nil] \in Params
      BY <1>1, <2>1 DEF Params
    <3>2. params' = [params EXCEPT ![m] = [params[m] EXCEPT !.value = Num("seconds"), !.state = Nil]]
      BY <2>1, <2>3
    <3>. QED
      BY <2>1, <3>1, <3>2
  <2>. QED
    BY <2>2, <2>3 DEF CountedDown
<1>4. CallInv'
  <2>1. CASE UNCHANGED call
    BY <2>1 DEF Inv, CallInv, Placed
  <2>2. CASE Call(m, SetState(Sym("time"), Nil))
    <3>1. SetState(Sym("time"), Nil) \in Command /\ SetState(Sym("time"), Nil).value = Nil
      BY ValueFacts, CommandFacts DEF States
    <3>. QED
      BY <2>2, <3>1, Called DEF Inv
  <2>. QED
    BY <2>1, <2>2 DEF CountedDown
<1>. QED
  BY <1>2, <1>3, <1>4

LEMMA WriteCountdownKeeps ==
  ASSUME Inv, NEW m \in Machines, WriteCountdown(m), UNCHANGED <<locks, requests>>
  PROVE  Inv'
<1>1. m = "tubes"
  BY OnlyTubes DEF WriteCountdown
<1>2. shown' \in [Machines -> Outputs]
  BY DEF WriteCountdown, Inv, MachInv, Outputs, Texts
<1>3. CASE (Fail("no target time") \/ Fail("no tubes count")) /\ UNCHANGED <<params, shown, call>>
  <2>1. failure' \in Failures
    BY <1>3, FailureFacts DEF Fail
  <2>2. CallInv'
    BY <1>3 DEF Inv, CallInv, Placed
  <2>. QED
    BY <1>2, <1>3, <2>1, <2>2 DEF WriteCountdown, Inv, StateInv, MachInv, RestInv, Known
<1>4. CASE params' = [params EXCEPT ![m].value = Num("seconds")] /\ UNCHANGED <<call, failure>>
  <2>1. Num("seconds") \in Values /\ params \in [Machines -> Params]
    BY ValueFacts DEF Inv, MachInv
  <2>2. params' \in [Machines -> Params]
    BY <1>4, <2>1, ValueSet
  <2>3. CallInv'
    BY <1>4 DEF Inv, CallInv, Placed
  <2>. QED
    BY <1>2, <1>4, <2>2, <2>3 DEF WriteCountdown, Inv, StateInv, MachInv, RestInv, Known
<1>5. CASE CountedDown(m)
  <2>1. CallInv' /\ params' \in [Machines -> Params] /\ failure' \in Failures
    BY <1>1, <1>5, CountedDownKeeps
  <2>. QED
    BY <1>2, <2>1 DEF WriteCountdown, Inv, StateInv, MachInv, RestInv, Known
<1>. QED
  BY <1>3, <1>4, <1>5 DEF WriteCountdown

LEMMA WriteMeetingTickerKeeps ==
  ASSUME Inv, NEW m \in Machines, WriteMeetingTicker(m), UNCHANGED <<locks, requests>>
  PROVE  Inv'
<1>1. CallInv'
  BY DEF WriteMeetingTicker, Inv, CallInv, Placed
<1>2. failure' \in Failures
  BY FailureFacts DEF WriteMeetingTicker, Fail, Inv, RestInv
<1>3. shown' \in [Machines -> Outputs]
  BY DEF WriteMeetingTicker, Inv, MachInv, Outputs, Texts
<1>. QED
  BY <1>1, <1>2, <1>3 DEF WriteMeetingTicker, Inv, StateInv, MachInv, RestInv, Known

LEMMA WriteBlinkKeeps ==
  ASSUME Inv, NEW m \in Machines, WriteBlink(m), UNCHANGED <<locks, requests>>
  PROVE  Inv'
<1>1. CallInv'
  BY DEF WriteBlink, Inv, CallInv, Placed
<1>2. failure' \in Failures
  BY FailureFacts DEF WriteBlink, Fail, Inv, RestInv
<1>3. shown' \in [Machines -> Outputs]
  BY DEF WriteBlink, Inv, MachInv, Outputs, Texts
<1>. QED
  BY <1>1, <1>2, <1>3 DEF WriteBlink, Inv, StateInv, MachInv, RestInv, Known

LEMMA WriteAnimationKeeps ==
  ASSUME Inv, NEW m \in Machines, WriteAnimation(m), UNCHANGED <<locks, requests>>
  PROVE  Inv'
<1>1. CallInv'
  BY DEF WriteAnimation, Inv, CallInv, Placed
<1>2. failure' \in Failures
  BY FailureFacts DEF WriteAnimation, Fail, Inv, RestInv
<1>3. shown' \in [Machines -> Outputs]
  <2>1. Output(m) \in Outputs
    BY DEF Output, Outputs, Texts
  <2>. QED
    BY <2>1 DEF WriteAnimation, Inv, MachInv
<1>4. animation \in [Machines -> Anims] /\ animation[m] \in Anims /\ animation[m].goto \in GotoValues
      /\ animation[m].left \in 0 .. AnimationTicks /\ AnimationTicks \in Nat
  BY DisplayAssumption DEF Inv, MachInv, Anims
<1>5. animation' \in [Machines -> Anims]
  <2>1. animation[m].left > 0 => [animation[m] EXCEPT !.left = @ - 1] \in Anims
    BY <1>4 DEF Anims
  <2>2. [animation[m] EXCEPT !.sent = TRUE] \in Anims
    BY <1>4 DEF Anims
  <2>3. \/ animation' = animation
        \/ animation[m].left > 0 /\ animation' = [animation EXCEPT ![m] = [animation[m] EXCEPT !.left = @ - 1]]
        \/ animation' = [animation EXCEPT ![m] = [animation[m] EXCEPT !.sent = TRUE]]
    BY <1>4 DEF WriteAnimation
  <2>. QED
    BY <1>4, <2>1, <2>2, <2>3
<1>6. Known(queue)'
  <2>1. Known(Post([to |-> m, cmd |-> SetState(animation[m].goto, Nil)]))
    BY <1>4, SentKnown
  <2>2. queue' = queue \/ Send(Post([to |-> m, cmd |-> SetState(animation[m].goto, Nil)]))
    BY DEF WriteAnimation
  <2>3. Known(queue)
    BY DEF Inv
  <2>4. CASE queue' = queue
    BY <2>3, <2>4 DEF Known
  <2>5. CASE Send(Post([to |-> m, cmd |-> SetState(animation[m].goto, Nil)]))
    BY <2>1, <2>3, <2>5, SendKnown
  <2>. QED
    BY <2>2, <2>4, <2>5
<1>. QED
  BY <1>1, <1>2, <1>3, <1>5, <1>6 DEF WriteAnimation, Inv, StateInv, MachInv, RestInv

LEMMA WriteKeeps ==
  ASSUME Inv, NEW m \in Polled, Write(m)
  PROVE  Inv'
<1>1. m \in Machines /\ UNCHANGED <<locks, requests>>
  BY DisplayAssumption DEF Write
<1>. QED
  BY <1>1, WriteStartupKeeps, WriteTimeKeeps, WriteFreeTubesKeeps, WriteFreeLampKeeps, WriteCountdownKeeps,
     WriteMeetingTickerKeeps, WriteBlinkKeeps, WriteAnimationKeeps DEF Write

-----------------------------------------------------------------------------
(* The consumer and the senders *)

\* What the validator lets through.
LEMMA ValidFacts ==
  ASSUME NEW m, NEW c, Valid(m, c), m # "tubes"
  PROVE  c.state \in Elsewhere
  BY DEF Valid, ValidForLamp, ValidForBar, Elsewhere

LEMMA TailKnown ==
  ASSUME Known(queue), queue # << >>, queue' = Tail(queue)
  PROVE  Known(queue)' /\ Head(queue) \in Message /\ Head(queue).to \in Machines
<1>1. /\ Tail(queue) \in Seq(Message) /\ Len(Tail(queue)) = Len(queue) - 1
      /\ Len(queue) \in Nat \ {0} /\ Head(queue) = queue[1] /\ Head(queue) \in Message
  BY DEF Known
<1>2. \A n \in 1 .. Len(Tail(queue)) : Tail(queue)[n] = queue[n + 1]
  BY <1>1 DEF Known
<1>3. ASSUME NEW n \in 1 .. Len(Tail(queue)) PROVE Tail(queue)[n].to \in Machines
  <2>1. n + 1 \in 1 .. Len(queue)
    BY <1>1
  <2>. QED
    BY <1>2, <2>1 DEF Known
<1>4. Head(queue).to \in Machines
  BY <1>1 DEF Known
<1>. QED
  BY <1>1, <1>3, <1>4 DEF Known

LEMMA DeliverKeeps ==
  ASSUME Inv, Deliver
  PROVE  Inv'
<1>. DEFINE m == Head(queue)
<1>1. Known(queue)' /\ m \in Message /\ m.to \in Machines
  BY TailKnown DEF Deliver, Inv
<1>2. m.cmd \in Command /\ m.to \in {"tubes"} \cup Lamps \cup Bars
  BY <1>1 DEF Message
<1>3. locks' \subseteq {"tubes"} \cup Lamps \cup Bars
  BY <1>2 DEF Deliver, Locks, Inv, RestInv
<1>4. CallInv'
  <2>1. CASE UNCHANGED call
    BY <2>1 DEF Inv, CallInv, Placed
  <2>2. CASE Accept(m) /\ Valid(m.to, m.cmd)
    <3>. DEFINE h == Handle(m.to, m.cmd, "read")
    <3>1. call' = [call EXCEPT ![Consumer] = h]
      BY <2>2 DEF Accept
    <3>2. h \in Calls /\ h.at = "read" /\ h.on = m.to /\ h.cmd = m.cmd
      BY <1>1, <1>2, HandleFacts DEF Calls, Steps
    <3>. HIDE DEF h
    <3>3. m.to # "tubes" => m.cmd.state \in Elsewhere
      BY <2>2, ValidFacts
    <3>4. Placed(Consumer, h)
      BY <1>1, <3>2, <3>3 DEF Placed
    <3>. QED
      BY <3>1, <3>4, TubesAre, OneCall DEF Inv
  <2>3. CASE Accept(m) /\ ~Valid(m.to, m.cmd)
    <3>1. call' = call
      BY <2>3 DEF Accept
    <3>. QED
      BY <2>1, <3>1
  <2>. QED
    BY <2>1, <2>2, <2>3 DEF Deliver
<1>. QED
  BY <1>1, <1>3, <1>4 DEF Deliver, machineVars, Inv, StateInv, MachInv, RestInv

LEMMA RequestKeeps ==
  ASSUME Inv, NEW m \in Requests, Request(m)
  PROVE  Inv'
<1>1. Known(queue)'
  BY DisplayAssumption, PostKnown, SendKnown DEF Request, Inv
<1>2. CallInv'
  BY DEF Request, Inv, CallInv, Placed
<1>3. requests' \in 0 .. RequestLimit
  BY DisplayAssumption DEF Request, Inv, RestInv
<1>. QED
  BY <1>1, <1>2, <1>3 DEF Request, machineVars, Inv, StateInv, MachInv, RestInv

LEMMA InvInit == Init => Inv
<1>. SUFFICES ASSUME Init PROVE Inv
  OBVIOUS
<1>1. Known(queue)
  BY SentKnown DEF Init
<1>2. CallInv
  <2>1. \A t \in Threads : call[t] = NoCall
    BY DEF Init
  <2>2. \A t \in Threads : Placed(t, call[t])
    BY <2>1, NoCallFacts, Zenon DEF Placed, Calls
  <2>. QED
    BY <2>2 DEF Init, CallInv
<1>3. StateInv
  BY DEF Init, StateInv, States, Own
<1>4. Nil \in Values /\ Nil \in StateValues /\ Nil \in GotoValues /\ AnimationTicks \in Nat
  BY ValueFacts, DisplayAssumption
<1>5. MachInv
  <2>1. [state |-> Nil, value |-> Nil, name |-> "none", options |-> NoOptions, last |-> Nil] \in Params
    BY <1>4, ValueFacts DEF Params
  <2>2. NoAnimation \in Anims
    BY <1>4 DEF NoAnimation, Anims
  <2>. QED
    BY <1>4, <2>1, <2>2 DEF Init, MachInv, Outputs
<1>6. RestInv
  BY DisplayAssumption DEF Init, RestInv, Failures
<1>. QED
  BY <1>1, <1>2, <1>3, <1>5, <1>6 DEF Inv

LEMMA InvStep == Inv /\ [Next]_vars => Inv'
<1>. SUFFICES ASSUME Inv, [Next]_vars PROVE Inv'
  OBVIOUS
<1>1. CASE UNCHANGED vars
  BY <1>1 DEF vars, machineVars, Inv, CallInv, Placed, StateInv, MachInv, RestInv, Known
<1>2. CASE Next
  BY <1>2, CallStepKeeps, WriteKeeps, DeliverKeeps, RequestKeeps DEF Next
<1>. QED
  BY <1>1, <1>2

THEOREM InvHolds == Spec => []Inv
  BY InvInit, InvStep, PTL DEF Spec

-----------------------------------------------------------------------------
(* A machine that is to be in an animation has a name and options for it *)

Armed(m) == params[m].name # "none" /\ params[m].options # NoOptions
Animates(c) == c.state \in {Str("animation"), Sym("animation")}
Brought(c) == c.name # "none" /\ c.options # NoOptions
ArmedFor(h) ==
  /\ h.at \in {"read", "merge"} /\ Animates(h.cmd) => Brought(h.cmd) \/ Armed(h.on)
  /\ h.at \in {"leave", "switch"} /\ Animates(h.cmd) => Armed(h.on)
OptionsInv ==
  /\ \A m \in Machines : state[m] = "animation" => Armed(m)
  /\ \A t \in Threads : ArmedFor(call[t])

\* Nobody takes them away.
ArmedNext(m) == params'[m].name # "none" /\ params'[m].options # NoOptions
ArmedAfter(h) ==
  /\ h.at \in {"read", "merge"} /\ Animates(h.cmd) => Brought(h.cmd) \/ ArmedNext(h.on)
  /\ h.at \in {"leave", "switch"} /\ Animates(h.cmd) => ArmedNext(h.on)
StaysArmed == \A m \in Machines : Armed(m) => ArmedNext(m)

LEMMA InvIsTypeOK == Inv /\ OptionsInv => TypeOK
<1>. SUFFICES ASSUME Inv, OptionsInv PROVE TypeOK
  OBVIOUS
<1>1. call \in [Threads -> Calls]
  BY DEF Inv, CallInv, Placed
<1>2. \A m \in Machines : state[m] = "animation" => params[m].name # "none" /\ params[m].options # NoOptions
  BY DEF OptionsInv, Armed, ArmedNext
<1>. QED
  BY <1>1, <1>2 DEF Inv, CallInv, StateInv, MachInv, RestInv, Known, TypeOK, Params, Anims, Calls

LEMMA UntouchedArmed ==
  ASSUME UNCHANGED params
  PROVE  StaysArmed
  BY DEF StaysArmed, Armed, ArmedNext

\* One machine's parameters change, and not its name and its options for none.
LEMMA SetArmed ==
  ASSUME Inv, NEW k \in Machines, NEW p, params' = [params EXCEPT ![k] = p],
         Armed(k) => p.name # "none" /\ p.options # NoOptions
  PROVE  StaysArmed
<1>1. \A m \in Machines : params'[m] = IF m = k THEN p ELSE params[m]
  BY DEF Inv, MachInv
<1>. QED
  BY <1>1 DEF StaysArmed, Armed, ArmedNext

\* One thread's call changes.
LEMMA CallArmed ==
  ASSUME Inv, OptionsInv, StaysArmed, NEW t \in Threads, NEW h, call' = [call EXCEPT ![t] = h],
         ArmedAfter(h), UNCHANGED state
  PROVE  OptionsInv'
<1>1. \A u \in Threads : call'[u] = IF u = t THEN h ELSE call[u]
  BY DEF Inv, CallInv
<1>2. ASSUME NEW u \in Threads PROVE ArmedFor(call[u])'
  <2>1. CASE u = t
    BY <1>1, <2>1 DEF ArmedFor, Animates, Brought, Armed, ArmedAfter, ArmedNext
  <2>2. CASE u # t
    <3>1. call'[u] = call[u] /\ (call[u].at # "idle" => call[u].on \in Machines)
      BY <1>1, <2>2 DEF Inv, CallInv, Placed
    <3>2. ArmedFor(call[u])
      BY DEF OptionsInv
    <3>. QED
      BY <3>1, <3>2 DEF ArmedFor, Animates, Brought, Armed, StaysArmed, ArmedAfter, ArmedNext
  <2>. QED
    BY <2>1, <2>2
<1>3. \A m \in Machines : (state[m] = "animation" => Armed(m))'
  BY DEF OptionsInv, StaysArmed, Armed, ArmedNext
<1>. QED
  BY <1>2, <1>3 DEF OptionsInv

\* No call changes.
LEMMA NoCallArmed ==
  ASSUME Inv, OptionsInv, StaysArmed, UNCHANGED <<call, state>>
  PROVE  OptionsInv'
<1>1. PICK t : t \in Threads
  BY TubesAre
<1>2. call' = [call EXCEPT ![t] = call[t]]
  BY DEF Inv, CallInv
<1>3. ArmedFor(call[t]) /\ (call[t].at # "idle" => call[t].on \in Machines)
  BY <1>1 DEF OptionsInv, Inv, CallInv, Placed
<1>4. ArmedFor(call[t])'
  BY <1>3 DEF ArmedFor, Animates, Brought, Armed, StaysArmed, ArmedAfter, ArmedNext
<1>5. \A u \in Threads : ArmedFor(call[u])'
  <2>1. \A u \in Threads : ArmedFor(call[u]) /\ (call[u].at # "idle" => call[u].on \in Machines)
    BY DEF OptionsInv, Inv, CallInv, Placed
  <2>. QED
    BY <2>1 DEF ArmedFor, Animates, Brought, Armed, StaysArmed, ArmedAfter, ArmedNext
<1>6. \A m \in Machines : (state[m] = "animation" => Armed(m))'
  BY DEF OptionsInv, StaysArmed, Armed, ArmedNext
<1>. QED
  BY <1>5, <1>6 DEF OptionsInv

\* A call that is over, or past the switch, asks for nothing; nor does the time.
LEMMA LaterArmed ==
  ASSUME NEW h
  PROVE  /\ h.at = "idle" \/ h.at \in Later => ArmedAfter(h)
         /\ h.cmd = SetState(Sym("time"), Nil) => ArmedAfter(h)
<1>1. h.at = "idle" \/ h.at \in Later => ArmedAfter(h)
  <2>1. h.at = "idle" \/ h.at \in Later => h.at \notin {"read", "merge", "leave", "switch"}
    BY DEF Later
  <2>. QED
    BY <2>1 DEF ArmedAfter
<1>2. ~Animates(SetState(Sym("time"), Nil))
  BY DEF Animates, SetState, Str, Sym
<1>3. h.cmd = SetState(Sym("time"), Nil) => ArmedAfter(h)
  BY <1>2 DEF ArmedFor, Animates, ArmedAfter
<1>. QED
  BY <1>1, <1>3

LEMMA ReturnArmed ==
  ASSUME Inv, OptionsInv, StaysArmed, NEW t \in Threads, Return(t), UNCHANGED state
  PROVE  OptionsInv'
<1>1. ArmedAfter(NoCall)
  BY NoCallFacts, LaterArmed
<1>. QED
  BY <1>1, CallArmed DEF Return

LEMMA ReadStateArmed ==
  ASSUME Inv, OptionsInv, NEW t \in Threads, ReadState(t)
  PROVE  OptionsInv'
<1>. DEFINE c == [call[t] EXCEPT !.at = "merge", !.current = params[call[t].on].state]
<1>1. call[t] \in Calls /\ call[t].at = "read" /\ call[t].on \in Machines /\ ArmedFor(call[t])
  BY DEF OptionsInv, Inv, CallInv, Placed, ReadState
<1>2. c.at = "merge" /\ c.on = call[t].on /\ c.cmd = call[t].cmd
  BY <1>1 DEF Calls
<1>3. call' = [call EXCEPT ![t] = c]
  BY DEF ReadState, Inv, CallInv
<1>. HIDE DEF c
<1>4. StaysArmed /\ UNCHANGED <<state, params>>
  BY UntouchedArmed DEF ReadState, machineVars
<1>5. ArmedAfter(c)
  BY <1>1, <1>2, <1>4 DEF ArmedFor, Animates, Brought, Armed, ArmedAfter, ArmedNext
<1>. QED
  BY <1>3, <1>4, <1>5, CallArmed

LEMMA MergeParamsArmed ==
  ASSUME Inv, OptionsInv, NEW t \in Threads, MergeParams(t)
  PROVE  OptionsInv'
<1>. DEFINE m == call[t].on
            p == Merged(params[m], call[t].cmd)
<1>1. call[t] \in Calls /\ call[t].at = "merge" /\ m \in Machines /\ ArmedFor(call[t])
      /\ call[t].cmd \in Command /\ call[t].cmd.state \in StateValues
  BY DEF OptionsInv, Inv, CallInv, Placed, MergeParams, Calls, Command
<1>2. params \in [Machines -> Params] /\ params[m] \in Params /\ params' = [params EXCEPT ![m] = p]
  BY <1>1 DEF MergeParams, Inv, MachInv
<1>3. (Armed(m) \/ Brought(call[t].cmd)) => p.name # "none" /\ p.options # NoOptions
  BY <1>1, <1>2 DEF Merged, Armed, Brought, Params, Command, ArmedNext
<1>4. params'[m] = p
  BY <1>1, <1>2
<1>. HIDE DEF p, m
<1>5. StaysArmed
  BY <1>1, <1>2, <1>3, SetArmed
<1>6. UNCHANGED state
  BY DEF MergeParams
<1>7. CASE Return(t)
  BY <1>5, <1>6, <1>7, ReturnArmed
<1>8. CASE call' = [call EXCEPT ![t] = Handle(m, SetState(call[t].cmd.state, Nil), "leave")]
  <2>. DEFINE h == Handle(m, SetState(call[t].cmd.state, Nil), "leave")
  <2>1. h.at = "leave" /\ h.on = m /\ h.cmd.state = call[t].cmd.state
    BY DEF Handle, SetState
  <2>. HIDE DEF h
  <2>2. Animates(h.cmd) => Armed(m) \/ Brought(call[t].cmd)
    BY <1>1, <2>1 DEF ArmedFor, Animates, m, ArmedAfter
  <2>3. Animates(h.cmd) => params'[m].name # "none" /\ params'[m].options # NoOptions
    BY <1>3, <1>4, <2>2
  <2>4. ArmedAfter(h)
    BY <2>1, <2>3 DEF ArmedFor, Armed, Animates, ArmedAfter, ArmedNext
  <2>. QED
    BY <1>5, <1>6, <1>8, <2>4, CallArmed DEF h
<1>. QED
  BY <1>7, <1>8 DEF MergeParams, m

LEMMA LeaveStateArmed ==
  ASSUME Inv, OptionsInv, NEW t \in Threads, LeaveState(t)
  PROVE  OptionsInv'
<1>. DEFINE c == [call[t] EXCEPT !.at = "switch"]
<1>1. call[t] \in Calls /\ call[t].at = "leave" /\ call[t].on \in Machines /\ ArmedFor(call[t])
  BY DEF OptionsInv, Inv, CallInv, Placed, LeaveState
<1>2. c.at = "switch" /\ c.on = call[t].on /\ c.cmd = call[t].cmd
  BY <1>1 DEF Calls
<1>3. call' = [call EXCEPT ![t] = c]
  BY DEF LeaveState, Goto, Inv, CallInv
<1>. HIDE DEF c
<1>4. StaysArmed /\ UNCHANGED <<state, params>>
  BY UntouchedArmed DEF LeaveState
<1>5. ArmedAfter(c)
  BY <1>1, <1>2, <1>4 DEF ArmedFor, Animates, Armed, ArmedAfter, ArmedNext
<1>. QED
  BY <1>3, <1>4, <1>5, CallArmed

LEMMA SwitchStateArmed ==
  ASSUME Inv, OptionsInv, NEW t \in Threads, SwitchState(t)
  PROVE  OptionsInv'
<1>1. call[t] \in Calls /\ call[t].at = "switch" /\ call[t].on \in Machines /\ ArmedFor(call[t])
      /\ call[t].cmd.state \in StateValues \ {Nil}
  BY DEF OptionsInv, Inv, CallInv, Placed, SwitchState, Calls, Command
<1>2. call[t].cmd.state[2] = "animation" => Animates(call[t].cmd)
  BY <1>1 DEF Animates, StateValues, GotoValues, Str, Sym, Nil
<1>3. \A m \in Machines : state'[m] = IF m = call[t].on THEN call[t].cmd.state[2] ELSE state[m]
  BY DEF SwitchState, Inv, StateInv
<1>4. UNCHANGED params
  BY DEF SwitchState
<1>5. \A m \in Machines : (state[m] = "animation" => Armed(m))'
  BY <1>1, <1>2, <1>3, <1>4 DEF ArmedFor, Armed, OptionsInv, ArmedAfter, ArmedNext
<1>6. ASSUME NEW u \in Threads PROVE ArmedFor(call[u])'
  <2>1. CASE u = t
    <3>1. call'[u].at = "publish"
      BY <1>1, <2>1 DEF SwitchState, Goto, Inv, CallInv, Calls
    <3>2. ArmedAfter(call'[u])
      BY <3>1, LaterArmed DEF Later, ArmedFor, ArmedAfter
    <3>. QED
      BY <3>1 DEF ArmedFor, ArmedAfter
  <2>2. CASE u # t
    <3>1. call'[u] = call[u]
      BY <2>2 DEF SwitchState, Goto, Inv, CallInv
    <3>. QED
      BY <1>4, <3>1 DEF OptionsInv, ArmedFor, Animates, Brought, Armed, ArmedAfter, ArmedNext
  <2>. QED
    BY <2>1, <2>2
<1>. QED
  BY <1>5, <1>6 DEF OptionsInv

LEMMA PublishStateArmed ==
  ASSUME Inv, OptionsInv, NEW t \in Threads, PublishState(t)
  PROVE  OptionsInv'
<1>. DEFINE m == call[t].on
            c == [call[t] EXCEPT !.at = "enter"]
            p == [params[m] EXCEPT !.state = Str(state[m])]
<1>1. call[t] \in Calls /\ m \in Machines
  BY DEF Inv, CallInv, Placed, PublishState
<1>2. params \in [Machines -> Params] /\ params[m] \in Params /\ params' = [params EXCEPT ![m] = p]
  BY <1>1 DEF PublishState, Inv, MachInv
<1>3. p.name = params[m].name /\ p.options = params[m].options
  BY <1>2 DEF Params
<1>4. c.at = "enter" /\ call' = [call EXCEPT ![t] = c]
  BY <1>1 DEF PublishState, Goto, Inv, CallInv, Calls
<1>. HIDE DEF c, p
<1>5. StaysArmed
  BY <1>1, <1>2, <1>3, SetArmed DEF Armed, ArmedNext
<1>6. ArmedAfter(c) /\ UNCHANGED state
  BY <1>4, LaterArmed DEF Later, PublishState
<1>. QED
  BY <1>4, <1>5, <1>6, CallArmed

LEMMA EnterStateArmed ==
  ASSUME Inv, OptionsInv, NEW t \in Threads, EnterState(t)
  PROVE  OptionsInv'
<1>1. call[t] \in Calls /\ call[t].on \in Machines /\ params \in [Machines -> Params]
  BY DEF Inv, CallInv, Placed, EnterState, MachInv
<1>2. UNCHANGED state
  BY DEF EnterState, EnterOther, EnterTime, EnterAnimation, EnterCountdown, EnterMeetingTicker, EnterBlink,
     machineVars
<1>3. StaysArmed
  <2>1. CASE UNCHANGED params
    BY <2>1, UntouchedArmed
  <2>2. CASE state[call[t].on] = "countdown" /\ EnterCountdown(t)
    <3>. DEFINE p == [params["tubes"] EXCEPT !.value = Parsed(params["tubes"].value)]
    <3>1. "tubes" \in Machines
      BY <1>1, <2>2, OnlyTubes
    <3>2. params["tubes"] \in Params /\ params' = [params EXCEPT !["tubes"] = p]
      BY <1>1, <2>2, <3>1 DEF EnterCountdown
    <3>3. p.name = params["tubes"].name /\ p.options = params["tubes"].options
      BY <3>2 DEF Params
    <3>. HIDE DEF p
    <3>. QED
      BY <3>1, <3>2, <3>3, SetArmed DEF Armed, ArmedNext
  <2>. QED
    BY <2>1, <2>2 DEF EnterState, EnterOther, EnterTime, EnterAnimation, EnterMeetingTicker, EnterBlink, machineVars
<1>4. CASE Return(t)
  BY <1>2, <1>3, <1>4, ReturnArmed
<1>5. CASE Goto(t, "driver")
  <2>. DEFINE c == [call[t] EXCEPT !.at = "driver"]
  <2>1. c.at = "driver" /\ call' = [call EXCEPT ![t] = c]
    BY <1>1, <1>5 DEF Goto, Inv, CallInv, Calls
  <2>. HIDE DEF c
  <2>2. ArmedAfter(c)
    BY <2>1, LaterArmed DEF Later
  <2>. QED
    BY <1>2, <1>3, <2>1, <2>2, CallArmed
<1>6. CASE call' = [call EXCEPT ![t] = Handle("tubes", SetState(Sym("time"), Nil), "read")]
  <2>. DEFINE h == Handle("tubes", SetState(Sym("time"), Nil), "read")
  <2>1. h.cmd = SetState(Sym("time"), Nil)
    BY DEF Handle
  <2>. HIDE DEF h
  <2>2. ArmedAfter(h)
    BY <2>1, LaterArmed
  <2>. QED
    BY <1>2, <1>3, <1>6, <2>2, CallArmed DEF h
<1>. QED
  BY <1>4, <1>5, <1>6 DEF EnterState, EnterOther, EnterTime, EnterAnimation, EnterCountdown, EnterMeetingTicker, EnterBlink

LEMMA CallStepArmed ==
  ASSUME Inv, OptionsInv, NEW t \in Threads, CallStep(t)
  PROVE  OptionsInv'
<1>1. CASE UseDriver(t)
  BY <1>1, UntouchedArmed, ReturnArmed DEF UseDriver
<1>. QED
  BY <1>1, ReadStateArmed, MergeParamsArmed, LeaveStateArmed, SwitchStateArmed, PublishStateArmed,
     EnterStateArmed DEF CallStep

\* A machine that starts its own animation names it first.
LEMMA StartAnimationArmed ==
  ASSUME Inv, OptionsInv, NEW m \in Machines, NEW g \in GotoValues \ {Nil}, StartAnimation(m, g),
         UNCHANGED state
  PROVE  OptionsInv'
<1>. DEFINE o == [goto |-> g, atEnd |-> "nothing"]
            p == [params[m] EXCEPT !.name = "known", !.options = o]
            h == Handle(m, SetState(Sym("animation"), Nil), "read")
<1>1. params \in [Machines -> Params] /\ params[m] \in Params
  BY DEF Inv, MachInv
<1>2. params' = [params EXCEPT ![m] = p] /\ p.name = "known" /\ p.options = o
  BY <1>1 DEF StartAnimation, Params
<1>3. o # NoOptions
  BY DEF NoOptions
<1>4. params'[m] = p /\ call' = [call EXCEPT ![m] = h] /\ h.on = m /\ h.at = "read" /\ m \in Threads
  BY <1>1, <1>2, TubesAre DEF StartAnimation, Call, Handle
<1>. HIDE DEF o, p, h
<1>5. StaysArmed
  BY <1>2, <1>3, SetArmed
<1>6. ArmedAfter(h)
  BY <1>2, <1>3, <1>4 DEF ArmedFor, Armed, ArmedAfter, ArmedNext
<1>. QED
  BY <1>4, <1>5, <1>6, CallArmed

LEMMA WriteArmed ==
  ASSUME Inv, OptionsInv, NEW m \in Polled, Write(m)
  PROVE  OptionsInv'
<1>1. m \in Machines /\ m \in Threads /\ params \in [Machines -> Params] /\ params[m] \in Params
  BY DisplayAssumption, TubesAre DEF Inv, MachInv
<1>2. UNCHANGED state
  BY DEF Write, WriteStartup, WriteTime, WriteFreeTubes, WriteFreeLamp, WriteCountdown, WriteMeetingTicker,
     WriteBlink, WriteAnimation
<1>3. CASE \E g \in GotoValues \ {Nil} : StartAnimation(m, g)
  BY <1>1, <1>2, <1>3, StartAnimationArmed
<1>4. CASE /\ \/ UNCHANGED params
              \/ \E p : /\ params' = [params EXCEPT ![m] = p]
                        /\ p.name = params[m].name /\ p.options = params[m].options
           /\ UNCHANGED call \/ Call(m, SetState(Sym("time"), Nil))
  <2>1. StaysArmed
    BY <1>1, <1>4, UntouchedArmed, SetArmed DEF Armed, ArmedNext
  <2>2. CASE UNCHANGED call
    BY <1>2, <2>1, <2>2, NoCallArmed
  <2>3. CASE Call(m, SetState(Sym("time"), Nil))
    <3>. DEFINE h == Handle(m, SetState(Sym("time"), Nil), "read")
    <3>1. h.cmd = SetState(Sym("time"), Nil) /\ call' = [call EXCEPT ![m] = h]
      BY <2>3 DEF Handle, Call
    <3>. HIDE DEF h
    <3>2. ArmedAfter(h)
      BY <3>1, LaterArmed
    <3>. QED
      BY <1>1, <1>2, <2>1, <3>1, <3>2, CallArmed
  <2>. QED
    BY <1>4, <2>2, <2>3
<1>5. CASE WriteStartup(m) \/ WriteTime(m)
  <2>1. Str("time") \in GotoValues \ {Nil} /\ Str("free_value") \in GotoValues \ {Nil}
    BY ValueFacts DEF States
  <2>. QED
    BY <1>3, <1>4, <1>5, <2>1 DEF WriteStartup, WriteTime
<1>6. CASE WriteFreeLamp(m)
  <2>. DEFINE p == [params[m] EXCEPT !.last = params[m].value]
  <2>1. params' = [params EXCEPT ![m] = p] /\ p.name = params[m].name /\ p.options = params[m].options
        /\ UNCHANGED call
    BY <1>1, <1>6 DEF WriteFreeLamp, Params
  <2>. QED
    BY <1>4, <2>1
<1>7. CASE WriteCountdown(m)
  <2>. DEFINE p == [params[m] EXCEPT !.value = Num("seconds")]
              q == [params[m] EXCEPT !.value = Num("seconds"), !.state = Nil]
  <2>1. p.name = params[m].name /\ p.options = params[m].options
        /\ q.name = params[m].name /\ q.options = params[m].options
    BY <1>1 DEF Params
  <2>2. UNCHANGED params \/ params' = [params EXCEPT ![m] = p] \/ params' = [params EXCEPT ![m] = q]
    BY <1>1, <1>7 DEF WriteCountdown, CountedDown
  <2>3. UNCHANGED call \/ Call(m, SetState(Sym("time"), Nil))
    BY <1>7 DEF WriteCountdown, CountedDown
  <2>. HIDE DEF p, q
  <2>. QED
    BY <1>4, <2>1, <2>2, <2>3
<1>8. CASE WriteFreeTubes(m) \/ WriteMeetingTicker(m) \/ WriteBlink(m) \/ WriteAnimation(m)
  BY <1>4, <1>8 DEF WriteFreeTubes, WriteMeetingTicker, WriteBlink, WriteAnimation
<1>. QED
  BY <1>5, <1>6, <1>7, <1>8 DEF Write

\* The validator lets no animation through without a name and options.
LEMMA DeliverArmed ==
  ASSUME Inv, OptionsInv, Deliver
  PROVE  OptionsInv'
<1>. DEFINE m == Head(queue)
            h == Handle(m.to, m.cmd, "read")
<1>1. StaysArmed /\ UNCHANGED state
  BY UntouchedArmed DEF Deliver, machineVars
<1>2. CASE UNCHANGED call
  BY <1>1, <1>2, NoCallArmed
<1>3. CASE Valid(m.to, m.cmd) /\ call' = [call EXCEPT ![Consumer] = h]
  <2>1. Animates(m.cmd) => HasOptions(m.cmd)
    BY <1>3 DEF Animates, Valid, ValidForTubes, ValidForLamp, ValidForBar, Str, Sym
  <2>2. HasOptions(m.cmd) => Brought(m.cmd)
    BY DEF HasOptions, Brought, NoOptions
  <2>3. h.cmd = m.cmd /\ h.at = "read"
    BY DEF Handle
  <2>. HIDE DEF h
  <2>4. ArmedAfter(h)
    BY <2>1, <2>2, <2>3 DEF ArmedFor, Animates, Brought, ArmedAfter
  <2>. QED
    BY <1>1, <1>3, <2>4, TubesAre, CallArmed
<1>. QED
  BY <1>2, <1>3 DEF Deliver, Accept

LEMMA OptionsStep == Inv /\ OptionsInv /\ [Next]_vars => OptionsInv'
<1>. SUFFICES ASSUME Inv, OptionsInv, [Next]_vars PROVE OptionsInv'
  OBVIOUS
<1>1. CASE UNCHANGED <<params, call, state>>
  BY <1>1, UntouchedArmed, NoCallArmed
<1>2. CASE \E m \in Requests : Request(m)
  BY <1>1, <1>2 DEF Request, machineVars
<1>. QED
  BY <1>1, <1>2, CallStepArmed, WriteArmed, DeliverArmed DEF Next, vars, machineVars

LEMMA OptionsInit == Init => OptionsInv
<1>. SUFFICES ASSUME Init PROVE OptionsInv
  OBVIOUS
<1>1. \A t \in Threads : call[t] = NoCall
  BY DEF Init
<1>2. \A t \in Threads : ArmedFor(call[t])
  BY <1>1, NoCallFacts DEF ArmedFor, ArmedAfter
<1>. QED
  BY <1>2 DEF Init, OptionsInv

\* The display's variables keep their types: no machine but the tubes reaches the
\* states of the tubes, and every message and every call names a machine that is
\* there (command_receiver.rb:72-98, base_state_machine.rb:115-150).
THEOREM DisplayTypes == Spec => []TypeOK
  BY InvInit, InvStep, OptionsInit, OptionsStep, InvIsTypeOK, PTL DEF Spec

-----------------------------------------------------------------------------
(* The lamp of the clock *)

\* The last message that brings the lamp a value brings w; none does.
Brings(q) == q.to = "lamp3" /\ q.cmd.value # Nil
Says(s, w) ==
  \E n \in 1..Len(s) : Brings(s[n]) /\ s[n].cmd.value = w /\ \A k \in (n + 1)..Len(s) : ~Brings(s[k])
Silent(s) == \A n \in 1..Len(s) : ~Brings(s[n])

\* Nobody locks the lamp, and who brings it a value asks for the free value: the
\* consumer never drops such a message.
Harmless(q) == q.to = "lamp3" => q.cmd.lock = Nil /\ (q.cmd.value # Nil => q.cmd.state = Str("free_value"))
Modest(s) == \A n \in 1..Len(s) : Harmless(s[n])

\* The consumer has taken a value for the lamp and not merged it yet.
Bringing(c) == c.at \in {"read", "merge"} /\ c.on = "lamp3" /\ c.cmd.value # Nil

\* When all that is on its way is done the lamp is on.
Held == IF Bringing(call[Consumer]) THEN call[Consumer].cmd.value ELSE params["lamp3"].value
Lit == Says(queue, Num("1")) \/ (Silent(queue) /\ Held = Num("1"))

\* A thread has left the last state of the tubes, and has not entered the new one.
Turns(c) == c.at \in {"switch", "publish", "enter"} /\ c.on = "tubes"
Turning == \E t \in Threads : Turns(call[t])

Both == {"tubes", "lamp3"} \subseteq Machines
ClockInv == Both /\ state["tubes"] = "time" => Turning \/ Lit
LampInv == Modest(queue) /\ "lamp3" \notin locks /\ ClockInv

LEMMA CatFacts ==
  ASSUME NEW S, NEW a \in Seq(S), NEW b \in Seq(S)
  PROVE  /\ a \o b \in Seq(S) /\ Len(a \o b) = Len(a) + Len(b) /\ Len(a) \in Nat /\ Len(b) \in Nat
         /\ \A n \in 1..Len(a) : (a \o b)[n] = a[n]
         /\ \A n \in 1..Len(b) : (a \o b)[Len(a) + n] = b[n]
  OBVIOUS

LEMMA CatModest ==
  ASSUME NEW S, NEW a \in Seq(S), NEW b \in Seq(S), Modest(a), Modest(b)
  PROVE  Modest(a \o b)
<1>1. ASSUME NEW n \in 1..Len(a \o b) PROVE Harmless((a \o b)[n])
  <2>1. CASE n \in 1..Len(a)
    BY <2>1, CatFacts DEF Modest
  <2>2. CASE n \notin 1..Len(a)
    <3>1. n - Len(a) \in 1..Len(b) /\ n = Len(a) + (n - Len(a))
      BY <2>2, CatFacts
    <3>2. (a \o b)[Len(a) + (n - Len(a))] = b[n - Len(a)]
      BY <3>1, CatFacts
    <3>. QED
      BY <3>1, <3>2 DEF Modest
  <2>. QED
    BY <2>1, <2>2
<1>. QED
  BY <1>1 DEF Modest

LEMMA CatSilent ==
  ASSUME NEW S, NEW a \in Seq(S), NEW b \in Seq(S), Silent(a), Silent(b)
  PROVE  Silent(a \o b)
<1>1. ASSUME NEW n \in 1..Len(a \o b) PROVE ~Brings((a \o b)[n])
  <2>1. CASE n \in 1..Len(a)
    BY <2>1, CatFacts DEF Silent
  <2>2. CASE n \notin 1..Len(a)
    <3>1. n - Len(a) \in 1..Len(b) /\ n = Len(a) + (n - Len(a))
      BY <2>2, CatFacts
    <3>2. (a \o b)[Len(a) + (n - Len(a))] = b[n - Len(a)]
      BY <3>1, CatFacts
    <3>. QED
      BY <3>1, <3>2 DEF Silent
  <2>. QED
    BY <2>1, <2>2
<1>. QED
  BY <1>1 DEF Silent

LEMMA SaysAndSilent ==
  ASSUME NEW S, NEW a \in Seq(S), NEW b \in Seq(S), NEW w, Says(a, w), Silent(b)
  PROVE  Says(a \o b, w)
<1>1. PICK n \in 1..Len(a) : Brings(a[n]) /\ a[n].cmd.value = w /\ \A k \in (n + 1)..Len(a) : ~Brings(a[k])
  BY DEF Says
<1>2. n \in 1..Len(a \o b) /\ (a \o b)[n] = a[n]
  BY CatFacts
<1>3. ASSUME NEW k \in (n + 1)..Len(a \o b) PROVE ~Brings((a \o b)[k])
  <2>1. CASE k \in 1..Len(a)
    <3>1. k \in (n + 1)..Len(a)
      BY <2>1
    <3>2. (a \o b)[k] = a[k]
      BY <2>1, CatFacts
    <3>. QED
      BY <1>1, <3>1, <3>2
  <2>2. CASE k \notin 1..Len(a)
    <3>1. k - Len(a) \in 1..Len(b) /\ k = Len(a) + (k - Len(a))
      BY <2>2, CatFacts
    <3>2. (a \o b)[Len(a) + (k - Len(a))] = b[k - Len(a)]
      BY <3>1, CatFacts
    <3>. QED
      BY <3>1, <3>2 DEF Silent
  <2>. QED
    BY <2>1, <2>2
<1>. QED
  BY <1>1, <1>2, <1>3 DEF Says

LEMMA SaysLast ==
  ASSUME NEW S, NEW a \in Seq(S), NEW b \in Seq(S), NEW w, Says(b, w)
  PROVE  Says(a \o b, w)
<1>1. PICK n \in 1..Len(b) : Brings(b[n]) /\ b[n].cmd.value = w /\ \A k \in (n + 1)..Len(b) : ~Brings(b[k])
  BY DEF Says
<1>2. Len(a) + n \in 1..Len(a \o b) /\ (a \o b)[Len(a) + n] = b[n]
  BY CatFacts
<1>3. ASSUME NEW k \in (Len(a) + n + 1)..Len(a \o b) PROVE ~Brings((a \o b)[k])
  <2>1. k - Len(a) \in (n + 1)..Len(b) /\ k - Len(a) \in 1..Len(b) /\ k = Len(a) + (k - Len(a))
    BY CatFacts
  <2>2. (a \o b)[Len(a) + (k - Len(a))] = b[k - Len(a)]
    BY <2>1, CatFacts
  <2>. QED
    BY <1>1, <2>1, <2>2
<1>. QED
  BY <1>1, <1>2, <1>3 DEF Says

\* A message is taken from the queue.
LEMMA TailSays ==
  ASSUME NEW S, NEW s \in Seq(S), s # << >>
  PROVE  /\ Modest(s) => Modest(Tail(s)) /\ Harmless(Head(s))
         /\ Silent(s) => Silent(Tail(s)) /\ ~Brings(Head(s))
         /\ \A w : Says(s, w) => Says(Tail(s), w) \/ (Brings(Head(s)) /\ Head(s).cmd.value = w /\ Silent(Tail(s)))
<1>1. Len(Tail(s)) = Len(s) - 1 /\ Len(s) \in Nat \ {0} /\ Head(s) = s[1] /\ 1 \in 1..Len(s)
      /\ \A n \in 1..Len(Tail(s)) : Tail(s)[n] = s[n + 1] /\ n + 1 \in 1..Len(s)
  OBVIOUS
<1>2. Modest(s) => Modest(Tail(s)) /\ Harmless(Head(s))
  BY <1>1 DEF Modest
<1>3. Silent(s) => Silent(Tail(s)) /\ ~Brings(Head(s))
  BY <1>1 DEF Silent
<1>4. ASSUME NEW w, Says(s, w)
      PROVE  Says(Tail(s), w) \/ (Brings(Head(s)) /\ Head(s).cmd.value = w /\ Silent(Tail(s)))
  <2>1. PICK n \in 1..Len(s) : Brings(s[n]) /\ s[n].cmd.value = w /\ \A k \in (n + 1)..Len(s) : ~Brings(s[k])
    BY <1>4 DEF Says
  <2>2. CASE n = 1
    <3>1. \A k \in 1..Len(Tail(s)) : k + 1 \in (n + 1)..Len(s)
      BY <1>1, <2>2
    <3>. QED
      BY <1>1, <2>1, <2>2, <3>1 DEF Silent
  <2>3. CASE n # 1
    <3>1. n - 1 \in 1..Len(Tail(s)) /\ Tail(s)[n - 1] = s[n]
      BY <1>1, <2>3
    <3>2. \A k \in ((n - 1) + 1)..Len(Tail(s)) : k \in 1..Len(Tail(s)) /\ k + 1 \in (n + 1)..Len(s)
      BY <1>1, <2>3
    <3>3. \A k \in ((n - 1) + 1)..Len(Tail(s)) : ~Brings(Tail(s)[k])
      BY <1>1, <2>1, <3>2
    <3>4. Brings(Tail(s)[n - 1]) /\ Tail(s)[n - 1].cmd.value = w
      BY <2>1, <3>1
    <3>5. Says(Tail(s), w)
      BY <3>1, <3>3, <3>4 DEF Says
    <3>. QED
      BY <3>5
  <2>. QED
    BY <2>2, <2>3
<1>. QED
  BY <1>2, <1>3, <1>4

\* What is sent: one message.
LEMMA PostSays ==
  ASSUME NEW m \in Message
  PROVE  /\ Post(m) \in Seq(Message)
         /\ Harmless(m) => Modest(Post(m))
         /\ ~Brings(m) => Silent(Post(m))
         /\ m.to \in Machines /\ Brings(m) => Says(Post(m), m.cmd.value)
<1>1. /\ <<m>> \in Seq(Message) /\ Len(<<m>>) = 1 /\ <<m>>[1] = m
      /\ << >> \in Seq(Message) /\ Len(<< >>) = 0
  OBVIOUS
<1>. QED
  BY <1>1 DEF Post, Modest, Silent, Says

LEMMA DarkSays ==
  ASSUME NEW m \in Lamps
  PROVE  Dark(m) \in Seq(Message) /\ Modest(Dark(m))
<1>1. /\ Free(m, Num("0")) \in Message /\ Free(m, Num("0")).cmd.lock = Nil
      /\ Free(m, Num("0")).cmd.state = Str("free_value")
  BY FreeFacts
<1>2. Harmless(Free(m, Num("0")))
  BY <1>1 DEF Harmless
<1>. QED
  BY <1>1, <1>2, PostSays DEF Dark

LEMMA AllDark ==
  /\ Dark("lamp0") \o Dark("lamp1") \o Dark("lamp2") \in Seq(Message)
  /\ Modest(Dark("lamp0") \o Dark("lamp1") \o Dark("lamp2"))
  /\ Modest(Dark("lamp0") \o Dark("lamp1") \o Dark("lamp2") \o Dark("lamp3") \o Dark("lamp4"))
  /\ ClockLampsOff \in Seq(Message) /\ Modest(ClockLampsOff)
<1>1. \A m \in Lamps : Dark(m) \in Seq(Message) /\ Modest(Dark(m))
  BY DarkSays
<1>2. \A m \in {"lamp0", "lamp1", "lamp2", "lamp3", "lamp4"} : Dark(m) \in Seq(Message) /\ Modest(Dark(m))
  BY <1>1 DEF Lamps
<1>3. Dark("lamp0") \o Dark("lamp1") \in Seq(Message) /\ Modest(Dark("lamp0") \o Dark("lamp1"))
  BY <1>2, CatFacts, CatModest
<1>4. /\ Dark("lamp0") \o Dark("lamp1") \o Dark("lamp2") \in Seq(Message)
      /\ Modest(Dark("lamp0") \o Dark("lamp1") \o Dark("lamp2"))
  BY <1>2, <1>3, CatFacts, CatModest
<1>5. /\ Dark("lamp0") \o Dark("lamp1") \o Dark("lamp2") \o Dark("lamp3") \in Seq(Message)
      /\ Modest(Dark("lamp0") \o Dark("lamp1") \o Dark("lamp2") \o Dark("lamp3"))
  BY <1>2, <1>4, CatFacts, CatModest
<1>6. Modest(Dark("lamp0") \o Dark("lamp1") \o Dark("lamp2") \o Dark("lamp3") \o Dark("lamp4"))
  BY <1>2, <1>5, CatModest
<1>7. ClockLampsOff \in Seq(Message) /\ Modest(ClockLampsOff)
  BY <1>2, CatFacts, CatModest DEF ClockLampsOff
<1>. QED
  BY <1>4, <1>6, <1>7

\* The time lights the lamp.
LEMMA TimeSays ==
  LightsOfTime \in Seq(Message) /\ Modest(LightsOfTime) /\ ("lamp3" \in Machines => Says(LightsOfTime, Num("1")))
<1>. DEFINE a == Dark("lamp0") \o Dark("lamp1") \o Dark("lamp2")
            m == Free("lamp3", Num("1"))
            k == [to |-> "lamp4", cmd |-> SetState(Str("blink"), Nil)]
<1>1. a \in Seq(Message) /\ Modest(a)
  BY AllDark
<1>2. m \in Message /\ m.to = "lamp3" /\ m.cmd.value = Num("1") /\ m.cmd.lock = Nil /\ m.cmd.state = Str("free_value")
  BY FreeFacts DEF Lamps
<1>3. k \in Message /\ k.to = "lamp4"
  <2>1. SetState(Str("blink"), Nil) \in Command
    BY ValueFacts, CommandFacts DEF States
  <2>. QED
    BY <2>1 DEF Message, Lamps
<1>4. LightsOfTime = (a \o Post(m)) \o Post(k)
  BY DEF LightsOfTime
<1>. HIDE DEF a, m, k
<1>5. Harmless(m) /\ Brings(m) /\ Harmless(k) /\ ~Brings(k)
  BY <1>2, <1>3 DEF Harmless, Brings, Num, Nil
<1>6. /\ Post(m) \in Seq(Message) /\ Modest(Post(m)) /\ Post(k) \in Seq(Message) /\ Modest(Post(k)) /\ Silent(Post(k))
      /\ ("lamp3" \in Machines => Says(Post(m), Num("1")))
  BY <1>2, <1>3, <1>5, PostSays
<1>7. a \o Post(m) \in Seq(Message) /\ Modest(a \o Post(m))
  BY <1>1, <1>6, CatFacts, CatModest
<1>8. "lamp3" \in Machines => Says(a \o Post(m), Num("1"))
  BY <1>1, <1>6, SaysLast
<1>9. (a \o Post(m)) \o Post(k) \in Seq(Message) /\ Modest((a \o Post(m)) \o Post(k))
  BY <1>6, <1>7, CatFacts, CatModest
<1>10. "lamp3" \in Machines => Says((a \o Post(m)) \o Post(k), Num("1"))
  BY <1>6, <1>7, <1>8, SaysAndSilent
<1>. QED
  BY <1>4, <1>9, <1>10

-----------------------------------------------------------------------------
(* The lamp follows the time *)

\* A thread that takes a step it is not turning the tubes with, and brings nothing.
LEMMA StillTurning ==
  ASSUME CallInv, NEW t \in Threads, NEW c, call' = [call EXCEPT ![t] = c],
         Turns(call[t]) => Turns(c)
  PROVE  (Turning => Turning') /\ (Turns(c) => Turning')
<1>1. \A u \in Threads : call'[u] = IF u = t THEN c ELSE call[u]
  BY DEF CallInv
<1>2. \A u \in Threads : Turns(call[u]) => Turns(call'[u])
  BY <1>1
<1>3. Turning => \E u \in Threads : Turns(call'[u])
  BY <1>2 DEF Turning
<1>4. Turns(c) => \E u \in Threads : Turns(call'[u])
  BY <1>1
<1>5. (\E u \in Threads : Turns(call'[u])) => Turning'
  BY DEF Turning, Turns
<1>. QED
  BY <1>3, <1>4, <1>5

LEMMA StillHeld ==
  ASSUME CallInv, NEW t \in Threads, NEW c, call' = [call EXCEPT ![t] = c],
         params'["lamp3"].value = params["lamp3"].value,
         t = Consumer => ~Bringing(c) /\ ~Bringing(call[t])
  PROVE  Held' = Held
<1>1. call'[Consumer] = IF t = Consumer THEN c ELSE call[Consumer]
  BY TubesAre DEF CallInv
<1>2. CASE t = Consumer
  <2>1. ~Bringing(call'[Consumer])
    BY <1>1, <1>2
  <2>2. Held' = params'["lamp3"].value
    BY <2>1 DEF Held, Bringing
  <2>. QED
    BY <1>2, <2>2 DEF Held
<1>3. CASE t # Consumer
  <2>1. call'[Consumer] = call[Consumer]
    BY <1>1, <1>3
  <2>. QED
    BY <2>1 DEF Held, Bringing
<1>. QED
  BY <1>2, <1>3

LEMMA StillLit ==
  ASSUME Held' = Held, UNCHANGED queue
  PROVE  Lit => Lit'
  BY DEF Lit, Says, Silent, Brings

\* Nothing about the lamp is said.
LEMMA StillLitAfter ==
  ASSUME Held' = Held, queue \in Seq(Message), NEW s \in Seq(Message), Silent(s), Send(s)
  PROVE  Lit => Lit'
<1>1. Says(queue, Num("1")) => Says(queue \o s, Num("1"))
  BY SaysAndSilent
<1>2. Silent(queue) => Silent(queue \o s)
  BY CatSilent
<1>3. queue' = queue \o s
  BY DEF Send
<1>. QED
  BY <1>1, <1>2, <1>3 DEF Lit, Says, Silent, Brings

\* A step of one thread that sends nothing, leaves the tubes in their state and the
\* value of the lamp what it is.
LEMMA QuietStep ==
  ASSUME Inv, ClockInv, NEW t \in Threads, NEW c, call' = [call EXCEPT ![t] = c],
         UNCHANGED queue, state'["tubes"] = state["tubes"],
         Both => params'["lamp3"].value = params["lamp3"].value,
         t = Consumer => ~Bringing(c) /\ ~Bringing(call[t]),
         Turns(call[t]) => Turns(c)
  PROVE  ClockInv'
<1>. SUFFICES ASSUME Both, state["tubes"] = "time" PROVE Turning' \/ Lit'
  BY DEF ClockInv, Both
<1>1. CallInv
  BY DEF Inv
<1>2. Held' = Held
  BY <1>1, StillHeld
<1>3. Lit => Lit'
  BY <1>2, StillLit
<1>4. Turning => Turning'
  BY <1>1, StillTurning
<1>. QED
  BY <1>3, <1>4 DEF ClockInv

LEMMA ModestKept ==
  ASSUME Modest(queue), UNCHANGED queue
  PROVE  Modest(queue)'
  BY DEF Modest, Harmless

LEMMA ModestSent ==
  ASSUME Known(queue), Modest(queue), NEW s \in Seq(Message), Modest(s), Send(s)
  PROVE  Modest(queue)'
<1>1. Modest(queue \o s) /\ queue' = queue \o s
  BY CatModest DEF Known, Send
<1>. QED
  BY <1>1 DEF Modest, Harmless

LEMMA ReadStateLamp ==
  ASSUME Inv, LampInv, NEW t \in Threads, ReadState(t)
  PROVE  Modest(queue)' /\ ClockInv'
<1>. DEFINE c == [call[t] EXCEPT !.at = "merge", !.current = params[call[t].on].state]
<1>1. call[t] \in Calls /\ call[t].at = "read"
  BY DEF Inv, CallInv, Placed, ReadState
<1>2. c.at = "merge" /\ c.on = call[t].on /\ c.cmd = call[t].cmd
  BY <1>1 DEF Calls
<1>3. call' = [call EXCEPT ![t] = c]
  BY DEF ReadState, Inv, CallInv
<1>. HIDE DEF c
<1>4. ~Turns(call[t]) /\ (Bringing(c) <=> Bringing(call[t]))
  BY <1>1, <1>2 DEF Turns, Bringing
<1>5. Held' = Held
  <2>1. call'[Consumer] = IF t = Consumer THEN c ELSE call[Consumer]
    BY <1>3, TubesAre DEF Inv, CallInv
  <2>2. Bringing(call'[Consumer]) <=> Bringing(call[Consumer])
    BY <1>4, <2>1
  <2>3. call'[Consumer].cmd = call[Consumer].cmd
    BY <1>2, <2>1
  <2>. QED
    BY <2>2, <2>3 DEF Held, Bringing, ReadState, machineVars
<1>6. Lit => Lit'
  BY <1>5, StillLit DEF ReadState
<1>7. Turning => Turning'
  BY <1>3, <1>4, StillTurning DEF Inv
<1>8. ClockInv'
  BY <1>6, <1>7 DEF LampInv, ClockInv, Both, ReadState, machineVars
<1>9. Modest(queue)'
  BY ModestKept DEF ReadState, LampInv
<1>. QED
  BY <1>8, <1>9

\* The value of the command is the value of the lamp from now on.
LEMMA MergeParamsLamp ==
  ASSUME Inv, LampInv, NEW t \in Threads, MergeParams(t)
  PROVE  Modest(queue)' /\ ClockInv'
<1>1. Placed(t, call[t]) /\ call[t] \in Calls /\ call[t].at = "merge" /\ call[t].on \in Machines
      /\ call[t].cmd \in Command /\ call[t].cmd.state \in StateValues
  BY DEF Inv, CallInv, Placed, MergeParams, Calls, Command
<1>2. PICK c : call' = [call EXCEPT ![t] = c] /\ ~Turns(c) /\ ~Bringing(c)
  <2>1. CASE call[t].cmd.state \in {Nil, call[t].current}
    BY <2>1, NoCallFacts DEF MergeParams, Return, Turns, Bringing
  <2>2. CASE call[t].cmd.state \notin {Nil, call[t].current}
    <3>. DEFINE h == Handle(call[t].on, SetState(call[t].cmd.state, Nil), "leave")
    <3>1. call' = [call EXCEPT ![t] = h]
      BY <2>2 DEF MergeParams
    <3>2. h.at = "leave"
      BY DEF Handle
    <3>. QED
      BY <3>1, <3>2 DEF Turns, Bringing
  <2>. QED
    BY <2>1, <2>2
<1>3. ~Turns(call[t])
  BY <1>1 DEF Turns
<1>4. Turning => Turning'
  BY <1>2, <1>3, StillTurning DEF Inv
<1>5. params \in [Machines -> Params] /\ params[call[t].on] \in Params
      /\ params' = [params EXCEPT ![call[t].on] = Merged(params[call[t].on], call[t].cmd)]
  BY <1>1 DEF MergeParams, Inv, MachInv
<1>6. ASSUME Both PROVE Held' = Held
  <2>1. CASE Bringing(call[t])
    <3>1. t = Consumer /\ call[t].on = "lamp3" /\ call[t].cmd.value # Nil
      BY <1>1, <2>1 DEF Bringing, Placed
    <3>2. Merged(params["lamp3"], call[t].cmd).value = call[t].cmd.value
      BY <1>1, <1>5, <3>1, MergedFacts
    <3>3. params'["lamp3"].value = call[t].cmd.value
      BY <1>5, <1>6, <3>1, <3>2 DEF Both
    <3>4. call'[Consumer] = c
      BY <1>2, <3>1 DEF Inv, CallInv
    <3>5. Held' = params'["lamp3"].value
      BY <1>2, <3>4 DEF Held, Bringing
    <3>6. Held = call[t].cmd.value
      BY <2>1, <3>1 DEF Held
    <3>. QED
      BY <3>3, <3>5, <3>6
  <2>2. CASE ~Bringing(call[t])
    <3>1. call[t].on = "lamp3" => call[t].cmd.value = Nil
      BY <1>1, <2>2 DEF Bringing
    <3>2. call[t].on = "lamp3" => Merged(params["lamp3"], call[t].cmd).value = params["lamp3"].value
      BY <1>1, <1>5, <3>1, MergedFacts
    <3>3. params'["lamp3"].value = params["lamp3"].value
      BY <1>5, <1>6, <3>2 DEF Both
    <3>. QED
      BY <1>2, <2>2, <3>3, StillHeld DEF Inv
  <2>. QED
    BY <2>1, <2>2
<1>7. Both => (Lit => Lit')
  BY <1>6, StillLit DEF MergeParams
<1>8. ClockInv'
  BY <1>4, <1>7 DEF LampInv, ClockInv, Both, MergeParams
<1>9. Modest(queue)'
  BY ModestKept DEF MergeParams, LampInv
<1>. QED
  BY <1>8, <1>9

\* Whoever leaves the time queues the dark before anybody can queue the light.
LEMMA LeaveStateLamp ==
  ASSUME Inv, LampInv, NEW t \in Threads, LeaveState(t)
  PROVE  Modest(queue)' /\ ClockInv'
<1>. DEFINE c == [call[t] EXCEPT !.at = "switch"]
<1>1. call[t] \in Calls /\ call[t].at = "leave"
  BY DEF Inv, CallInv, Placed, LeaveState
<1>2. c.at = "switch" /\ c.on = call[t].on
  BY <1>1 DEF Calls
<1>3. call' = [call EXCEPT ![t] = c]
  BY DEF LeaveState, Goto, Inv, CallInv
<1>. HIDE DEF c
<1>4. ClockInv'
  <2>1. CASE call[t].on = "tubes"
    <3>1. Turns(c)
      BY <1>2, <2>1 DEF Turns
    <3>. QED
      BY <1>3, <3>1, StillTurning DEF ClockInv, Inv
  <2>2. CASE call[t].on # "tubes" /\ state["tubes"] = "time" /\ Both
    <3>1. state[call[t].on] # "time"
      BY <1>1, <2>2 DEF Inv, StateInv, Own, CallInv, Placed
    <3>2. queue' = queue \o << >> /\ queue \in Seq(Message)
      BY <3>1 DEF LeaveState, Send, Inv, Known
    <3>3. queue' = queue
      BY <3>2
    <3>. QED
      BY <1>1, <1>2, <1>3, <3>3, QuietStep DEF LampInv, LeaveState, Turns, Bringing
  <2>3. CASE ~(state["tubes"] = "time" /\ Both)
    BY <2>3 DEF ClockInv, Both, LeaveState
  <2>. QED
    BY <2>1, <2>2, <2>3
<1>5. Modest(queue)'
  <2>. DEFINE s == IF state[call[t].on] = "time" THEN ClockLampsOff ELSE << >>
  <2>1. << >> \in Seq(Message) /\ Modest(<< >>)
    BY DEF Modest
  <2>2. s \in Seq(Message) /\ Modest(s)
    BY <2>1, AllDark
  <2>3. Send(s)
    BY DEF LeaveState
  <2>. QED
    BY <2>2, <2>3, ModestSent DEF LampInv, Inv
<1>. QED
  BY <1>4, <1>5

LEMMA SwitchStateLamp ==
  ASSUME Inv, LampInv, NEW t \in Threads, SwitchState(t)
  PROVE  Modest(queue)' /\ ClockInv'
<1>. DEFINE c == [call[t] EXCEPT !.at = "publish"]
<1>1. call[t] \in Calls /\ call[t].at = "switch"
  BY DEF Inv, CallInv, Placed, SwitchState
<1>2. c.at = "publish" /\ c.on = call[t].on
  BY <1>1 DEF Calls
<1>3. call' = [call EXCEPT ![t] = c]
  BY DEF SwitchState, Goto, Inv, CallInv
<1>. HIDE DEF c
<1>4. ClockInv'
  <2>1. CASE call[t].on = "tubes"
    <3>1. Turns(c)
      BY <1>2, <2>1 DEF Turns
    <3>. QED
      BY <1>3, <3>1, StillTurning DEF ClockInv, Inv
  <2>2. CASE call[t].on # "tubes"
    <3>1. state'["tubes"] = state["tubes"]
      BY <2>2 DEF SwitchState
    <3>. QED
      BY <1>1, <1>2, <1>3, <3>1, QuietStep DEF LampInv, SwitchState, Turns, Bringing
  <2>. QED
    BY <2>1, <2>2
<1>5. Modest(queue)'
  BY ModestKept DEF SwitchState, LampInv
<1>. QED
  BY <1>4, <1>5

LEMMA PublishStateLamp ==
  ASSUME Inv, LampInv, NEW t \in Threads, PublishState(t)
  PROVE  Modest(queue)' /\ ClockInv'
<1>. DEFINE c == [call[t] EXCEPT !.at = "enter"]
<1>1. call[t] \in Calls /\ call[t].at = "publish"
  BY DEF Inv, CallInv, Placed, PublishState
<1>2. c.at = "enter" /\ c.on = call[t].on
  BY <1>1 DEF Calls
<1>3. call' = [call EXCEPT ![t] = c]
  BY DEF PublishState, Goto, Inv, CallInv
<1>. HIDE DEF c
<1>4. Both => params'["lamp3"].value = params["lamp3"].value
  BY DEF PublishState, Inv, MachInv, Params, Both
<1>5. ClockInv'
  BY <1>1, <1>2, <1>3, <1>4, QuietStep DEF LampInv, PublishState, Turns, Bringing
<1>6. Modest(queue)'
  BY ModestKept DEF PublishState, LampInv
<1>. QED
  BY <1>5, <1>6

\* Whoever enters the time lights the lamp.
LEMMA EnterTimeLamp ==
  ASSUME Inv, LampInv, NEW t \in Threads, EnterTime(t)
  PROVE  Modest(queue)' /\ ClockInv'
<1>1. LightsOfTime \in Seq(Message) /\ Modest(LightsOfTime) /\ Send(LightsOfTime) /\ queue \in Seq(Message)
  BY TimeSays DEF EnterTime, LightsOfTime, Inv, Known
<1>2. Modest(queue)'
  BY <1>1, ModestSent DEF LampInv, Inv
<1>3. ASSUME Both PROVE Lit'
  <2>1. Says(LightsOfTime, Num("1"))
    BY <1>3, TimeSays DEF Both
  <2>2. Says(queue \o LightsOfTime, Num("1"))
    BY <1>1, <2>1, SaysLast
  <2>. QED
    BY <1>1, <2>2 DEF Lit, Says, Brings, Send
<1>4. ClockInv'
  BY <1>3 DEF ClockInv, Both
<1>. QED
  BY <1>2, <1>4

\* The other states say nothing to the lamp.
LEMMA EnterOtherLamp ==
  ASSUME Inv, LampInv, NEW t \in Threads, call[t].at = "enter", call[t].on \in Machines,
         NEW c, call' = [call EXCEPT ![t] = c], ~Bringing(c),
         state[call[t].on] # "time", UNCHANGED <<queue, state>>,
         Both => params'["lamp3"].value = params["lamp3"].value
  PROVE  Modest(queue)' /\ ClockInv'
<1>1. Modest(queue)'
  BY ModestKept DEF LampInv
<1>2. CASE call[t].on = "tubes"
  BY <1>1, <1>2 DEF ClockInv
<1>3. CASE call[t].on # "tubes"
  <2>1. ~Turns(call[t]) /\ ~Bringing(call[t])
    BY <1>3 DEF Turns, Bringing
  <2>2. ClockInv'
    BY <2>1, QuietStep DEF LampInv
  <2>. QED
    BY <1>1, <2>2
<1>. QED
  BY <1>1, <1>2, <1>3

LEMMA EnterStateLamp ==
  ASSUME Inv, LampInv, NEW t \in Threads, EnterState(t)
  PROVE  Modest(queue)' /\ ClockInv'
<1>1. call[t].at = "enter" /\ call[t].on \in Machines
  BY DEF Inv, CallInv, Placed, EnterState
<1>. DEFINE s == state[call[t].on]
<1>2. CASE EnterTime(t)
  BY <1>2, EnterTimeLamp
<1>3. CASE ~EnterTime(t)
  <2>1. s # "time"
    BY <1>3 DEF EnterState, EnterOther
  <2>2. UNCHANGED <<queue, state>>
    BY <1>3 DEF EnterState, EnterOther, EnterAnimation, EnterCountdown, EnterMeetingTicker, EnterBlink, machineVars
  <2>3. Both => params'["lamp3"].value = params["lamp3"].value
    BY <1>3 DEF EnterState, EnterOther, EnterAnimation, EnterCountdown, EnterMeetingTicker, EnterBlink,
       machineVars, Inv, MachInv, Params, Both
  <2>. DEFINE d == [call[t] EXCEPT !.at = "driver"]
  <2>4. \/ call' = [call EXCEPT ![t] = NoCall]
        \/ call' = [call EXCEPT ![t] = Handle("tubes", SetState(Sym("time"), Nil), "read")]
        \/ call' = [call EXCEPT ![t] = d]
    BY <1>3 DEF EnterState, EnterOther, EnterAnimation, EnterCountdown, EnterMeetingTicker, EnterBlink,
       Return, Goto, Inv, CallInv
  <2>5. /\ ~Bringing(NoCall) /\ ~Bringing(Handle("tubes", SetState(Sym("time"), Nil), "read"))
        /\ ~Bringing(d)
    BY NoCallFacts DEF Bringing, Handle, Inv, CallInv, Placed, Calls
  <2>. HIDE DEF d
  <2>. QED
    BY <1>1, <2>1, <2>2, <2>3, <2>4, <2>5, EnterOtherLamp
<1>. QED
  BY <1>2, <1>3

LEMMA UseDriverLamp ==
  ASSUME Inv, LampInv, NEW t \in Threads, UseDriver(t)
  PROVE  Modest(queue)' /\ ClockInv'
<1>1. call' = [call EXCEPT ![t] = NoCall] /\ ~Bringing(NoCall) /\ ~Bringing(call[t]) /\ ~Turns(call[t])
  BY NoCallFacts DEF UseDriver, Return, Bringing, Turns
<1>2. UNCHANGED <<queue, state, params>>
  BY DEF UseDriver
<1>3. ClockInv'
  BY <1>1, <1>2, QuietStep DEF LampInv
<1>4. Modest(queue)'
  BY <1>2, ModestKept DEF LampInv
<1>. QED
  BY <1>3, <1>4

LEMMA CallStepLamp ==
  ASSUME Inv, LampInv, NEW t \in Threads, CallStep(t)
  PROVE  LampInv'
<1>1. "lamp3" \notin locks'
  BY DEF CallStep, LampInv
<1>2. Modest(queue)' /\ ClockInv'
  BY ReadStateLamp, MergeParamsLamp, LeaveStateLamp, SwitchStateLamp, PublishStateLamp, EnterStateLamp,
     UseDriverLamp DEF CallStep
<1>. QED
  BY <1>1, <1>2 DEF LampInv

-----------------------------------------------------------------------------
(* The writes, the consumer and the senders *)

\* A machine that writes calls itself at most: it was idle.
LEMMA WriteLamp ==
  ASSUME Inv, LampInv, NEW m \in Polled, Write(m)
  PROVE  LampInv'
<1>1. m \in Machines /\ m \in Threads /\ m # Consumer /\ call[m].at = "idle"
  BY DisplayAssumption, TubesAre DEF Write
<1>2. state'["tubes"] = state["tubes"] /\ locks' = locks
  BY DEF Write, WriteStartup, WriteTime, WriteFreeTubes, WriteFreeLamp, WriteCountdown, WriteMeetingTicker,
     WriteBlink, WriteAnimation
<1>3. \E c : call' = [call EXCEPT ![m] = c]
  <2>1. UNCHANGED call => call' = [call EXCEPT ![m] = call[m]]
    BY DEF Inv, CallInv
  <2>2. UNCHANGED call \/ (\E c : Call(m, c))
    BY DEF Write, WriteStartup, WriteTime, WriteFreeTubes, WriteFreeLamp, WriteCountdown, CountedDown,
       WriteMeetingTicker, WriteBlink, WriteAnimation, StartAnimation
  <2>. QED
    BY <2>1, <2>2 DEF Call
<1>4. Both => params'["lamp3"].value = params["lamp3"].value
  <2>1. params \in [Machines -> Params] /\ (state[m] = "countdown" => m = "tubes")
    BY <1>1, OnlyTubes DEF Inv, MachInv
  <2>. DEFINE Named(g) == [params EXCEPT ![m].name = "known", ![m].options = [goto |-> g, atEnd |-> "nothing"]]
              Written  == [params EXCEPT ![m].last = params[m].value]
  <2>2. \/ UNCHANGED params
        \/ \E g : params' = Named(g)
        \/ params' = Written
        \/ /\ m = "tubes"
           /\ \/ params' = [params EXCEPT ![m].value = Num("seconds")]
              \/ params' = [params EXCEPT ![m].value = Num("seconds"), ![m].state = Nil]
    BY <2>1 DEF Write, WriteStartup, WriteTime, WriteFreeTubes, WriteFreeLamp, WriteCountdown, CountedDown,
       WriteMeetingTicker, WriteBlink, WriteAnimation, StartAnimation
  <2>3. "lamp3" \in Machines => params["lamp3"] \in Params
    BY <2>1
  <2>4. (\E g : params' = Named(g)) /\ Both => params'["lamp3"].value = params["lamp3"].value
    BY <1>1, <2>1, <2>3 DEF Params, Both
  <2>5. params' = Written /\ Both => params'["lamp3"].value = params["lamp3"].value
    BY <1>1, <2>1, <2>3 DEF Params, Both
  <2>. HIDE DEF Named, Written
  <2>6. /\ m = "tubes"
        /\ \/ params' = [params EXCEPT ![m].value = Num("seconds")]
           \/ params' = [params EXCEPT ![m].value = Num("seconds"), ![m].state = Nil]
        /\ Both
        => params'["lamp3"].value = params["lamp3"].value
    BY <2>1 DEF Both
  <2>. QED
    BY <2>2, <2>4, <2>5, <2>6
<1>5. PICK c : call' = [call EXCEPT ![m] = c]
  BY <1>3
<1>6. ~Turns(call[m])
  BY <1>1 DEF Turns
<1>7. ASSUME UNCHANGED queue PROVE LampInv'
  <2>1. ClockInv'
    BY <1>1, <1>2, <1>4, <1>5, <1>6, <1>7, QuietStep DEF LampInv
  <2>. QED
    BY <1>2, <1>7, <2>1, ModestKept DEF LampInv
<1>8. ASSUME Send(Post([to |-> m, cmd |-> SetState(animation[m].goto, Nil)])) PROVE LampInv'
  <2>. DEFINE q == [to |-> m, cmd |-> SetState(animation[m].goto, Nil)]
  <2>1. animation[m].goto \in StateValues
    BY <1>1, ValueFacts DEF Inv, MachInv, Anims
  <2>2. /\ SetState(animation[m].goto, Nil) \in Command
        /\ SetState(animation[m].goto, Nil).value = Nil /\ SetState(animation[m].goto, Nil).lock = Nil
    BY <2>1, ValueFacts, CommandFacts
  <2>3. q \in Message /\ q.cmd = SetState(animation[m].goto, Nil)
    BY <1>1, <2>2, DisplayAssumption DEF Message
  <2>4. Send(Post(q))
    BY <1>8
  <2>. HIDE DEF q
  <2>5. Harmless(q) /\ ~Brings(q)
    BY <2>2, <2>3 DEF Harmless, Brings
  <2>6. Post(q) \in Seq(Message) /\ Modest(Post(q)) /\ Silent(Post(q))
    BY <2>3, <2>5, PostSays
  <2>7. Modest(queue)'
    BY <2>4, <2>6, ModestSent DEF Inv, LampInv
  <2>8. Both => (Lit => Lit')
    <3>1. Both => Held' = Held
      BY <1>1, <1>4, <1>5, StillHeld DEF Inv
    <3>. QED
      BY <2>4, <2>6, <3>1, StillLitAfter DEF Inv, Known
  <2>9. Turning => Turning'
    BY <1>1, <1>5, <1>6, StillTurning DEF Inv
  <2>. QED
    BY <1>2, <2>7, <2>8, <2>9 DEF LampInv, ClockInv, Both
<1>. QED
  BY <1>7, <1>8 DEF Write, WriteStartup, WriteTime, WriteFreeTubes, WriteFreeLamp, WriteCountdown,
     WriteMeetingTicker, WriteBlink, WriteAnimation

\* The consumer drops no message that brings the lamp a value.
LEMMA DeliverLamp ==
  ASSUME Inv, LampInv, Deliver
  PROVE  LampInv'
<1>. DEFINE m == Head(queue)
<1>1. queue \in Seq(Message) /\ queue # << >> /\ queue' = Tail(queue) /\ m \in Message /\ m.to \in Machines
      /\ call[Consumer].at = "idle"
  BY TailKnown DEF Deliver, Inv, Known
<1>2. Modest(queue)' /\ Harmless(m)
  <2>1. Modest(Tail(queue)) /\ Harmless(m)
    BY <1>1, TailSays DEF LampInv
  <2>. QED
    BY <1>1, <2>1 DEF Modest, Harmless
<1>3. "lamp3" \notin locks'
  BY <1>2 DEF Deliver, Locks, Harmless, LampInv
<1>4. UNCHANGED <<state, params>>
  BY DEF Deliver, machineVars
<1>5. PICK c : call' = [call EXCEPT ![Consumer] = c] /\ ~Turns(c) /\ (Bringing(c) <=> Brings(m))
               /\ (Brings(m) => c.cmd.value = m.cmd.value)
  <2>1. CASE Brings(m)
    <3>1. m.to = "lamp3" /\ m.cmd.value # Nil /\ m.cmd.state = Str("free_value")
      BY <1>2, <2>1 DEF Brings, Harmless
    <3>2. Valid(m.to, m.cmd)
      BY <3>1 DEF Valid, ValidForLamp, Lamps
    <3>3. call' = [call EXCEPT ![Consumer] = Handle(m.to, m.cmd, "read")]
      BY <3>1, <3>2 DEF Deliver, Accept, LampInv
    <3>4. Handle(m.to, m.cmd, "read").at = "read" /\ Handle(m.to, m.cmd, "read").on = m.to
          /\ Handle(m.to, m.cmd, "read").cmd = m.cmd
      BY DEF Handle
    <3>. QED
      BY <2>1, <3>1, <3>3, <3>4 DEF Turns, Bringing
  <2>2. CASE ~Brings(m)
    <3>1. UNCHANGED call \/ call' = [call EXCEPT ![Consumer] = Handle(m.to, m.cmd, "read")]
      BY DEF Deliver, Accept
    <3>2. Handle(m.to, m.cmd, "read").at = "read" /\ Handle(m.to, m.cmd, "read").on = m.to
          /\ Handle(m.to, m.cmd, "read").cmd = m.cmd
      BY DEF Handle
    <3>3. CASE UNCHANGED call
      <4>1. call' = [call EXCEPT ![Consumer] = call[Consumer]]
        BY <3>3 DEF Inv, CallInv
      <4>. QED
        BY <1>1, <2>2, <4>1 DEF Turns, Bringing
    <3>4. CASE call' = [call EXCEPT ![Consumer] = Handle(m.to, m.cmd, "read")]
      BY <2>2, <3>2, <3>4 DEF Turns, Bringing, Brings
    <3>. QED
      BY <3>1, <3>3, <3>4
  <2>. QED
    BY <2>1, <2>2
<1>6. Turning => Turning'
  <2>1. ~Turns(call[Consumer])
    BY <1>1 DEF Turns
  <2>. QED
    BY <1>5, <2>1, TubesAre, StillTurning DEF Inv
<1>7. Held' = (IF Brings(m) THEN m.cmd.value ELSE Held)
  <2>1. call'[Consumer] = c
    BY <1>5, TubesAre DEF Inv, CallInv
  <2>2. ~Bringing(call[Consumer])
    BY <1>1 DEF Bringing
  <2>3. Held' = IF Bringing(c) THEN c.cmd.value ELSE params["lamp3"].value
    BY <1>4, <2>1 DEF Held, Bringing
  <2>. QED
    BY <1>5, <2>2, <2>3 DEF Held
<1>8. Lit => Lit'
  <2>1. Says(queue, Num("1")) => Says(Tail(queue), Num("1")) \/ (Brings(m) /\ m.cmd.value = Num("1") /\ Silent(Tail(queue)))
    BY <1>1, TailSays
  <2>2. Silent(queue) => Silent(Tail(queue)) /\ ~Brings(m)
    BY <1>1, TailSays
  <2>3. Lit => Says(Tail(queue), Num("1")) \/ (Silent(Tail(queue)) /\ Held' = Num("1"))
    BY <1>7, <2>1, <2>2 DEF Lit
  <2>. QED
    BY <1>1, <2>3 DEF Lit, Says, Silent, Brings
<1>9. ClockInv'
  BY <1>4, <1>6, <1>8 DEF LampInv, ClockInv, Both
<1>. QED
  BY <1>2, <1>3, <1>9 DEF LampInv

\* Nobody else commands the lamp.
NobodyElse == \A q \in Requests : q.to # "lamp3"

LEMMA RequestLamp ==
  ASSUME Inv, LampInv, NobodyElse, NEW m \in Requests, Request(m)
  PROVE  LampInv'
<1>1. m \in Message /\ m.to # "lamp3"
  BY DisplayAssumption DEF NobodyElse
<1>2. Harmless(m) /\ ~Brings(m)
  BY <1>1 DEF Harmless, Brings
<1>3. Post(m) \in Seq(Message) /\ Modest(Post(m)) /\ Silent(Post(m)) /\ Send(Post(m))
  BY <1>1, <1>2, PostSays DEF Request
<1>4. Modest(queue)'
  BY <1>3, ModestSent DEF Inv, LampInv
<1>5. Lit => Lit'
  <2>1. Held' = Held
    BY DEF Request, machineVars, Held, Bringing
  <2>. QED
    BY <1>3, <2>1, StillLitAfter DEF Inv, Known
<1>6. Turning => Turning'
  BY DEF Request, Turning, Turns
<1>. QED
  BY <1>4, <1>5, <1>6 DEF Request, machineVars, LampInv, ClockInv, Both

LEMMA LampInvStep == NobodyElse /\ Inv /\ LampInv /\ [Next]_vars => LampInv'
<1>. SUFFICES ASSUME NobodyElse, Inv, LampInv, [Next]_vars PROVE LampInv'
  OBVIOUS
<1>1. CASE UNCHANGED vars
  <2>1. Modest(queue)'
    BY <1>1, ModestKept DEF LampInv, vars
  <2>2. Held' = Held
    BY <1>1 DEF vars, machineVars, Held, Bringing
  <2>3. Lit => Lit'
    BY <1>1, <2>2, StillLit DEF vars
  <2>4. Turning => Turning'
    BY <1>1 DEF vars, Turning, Turns
  <2>. QED
    BY <1>1, <2>1, <2>3, <2>4 DEF vars, machineVars, LampInv, ClockInv, Both
<1>2. CASE Next
  BY <1>2, CallStepLamp, WriteLamp, DeliverLamp, RequestLamp DEF Next
<1>. QED
  BY <1>1, <1>2

LEMMA LampInvInit == Init => LampInv
<1>. SUFFICES ASSUME Init PROVE LampInv
  OBVIOUS
<1>1. Modest(queue)
  BY AllDark DEF Init
<1>2. ClockInv
  BY DEF Init, ClockInv, Both
<1>. QED
  BY <1>1, <1>2 DEF Init, LampInv

LEMMA LampInvIsFollows == Inv /\ LampInv => LampFollowsTime
<1>. SUFFICES ASSUME Inv, LampInv, Quiet, Both, state["tubes"] = "time"
              PROVE  params["lamp3"].value = Num("1")
  BY DEF LampFollowsTime, Both
<1>1. ~Turning
  BY DEF Turning, Turns, Quiet
<1>2. ~Says(queue, Num("1"))
  BY DEF Says, Quiet
<1>3. Held = params["lamp3"].value
  BY TubesAre DEF Held, Bringing, Quiet
<1>. QED
  BY <1>1, <1>2, <1>3 DEF LampInv, ClockInv, Lit

\* Whenever the tubes show the time and all is quiet the steady lamp of the clock
\* is on, whatever the web server, the scheduler and the threads of the machines
\* did before: as long as nobody but the clock commands that lamp
\* (tube_state_machine.rb:41-52, 86-89).
THEOREM LampFollowsTheTime == NobodyElse => (Spec => []LampFollowsTime)
<1>. SUFFICES ASSUME NobodyElse PROVE Spec => []LampFollowsTime
  OBVIOUS
<1>1. Init => LampInv
  BY LampInvInit
<1>2. Inv /\ LampInv /\ [Next]_vars => LampInv'
  BY LampInvStep
<1>. QED
  BY <1>1, <1>2, InvHolds, LampInvIsFollows, PTL DEF Spec

=============================================================================
