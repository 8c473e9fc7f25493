-------------------------- MODULE CommandValidator --------------------------
(***************************************************************************)
(* The commands of the display machines and the validator that guards them *)
(* twice: in the web server and in the CommandReceiver                     *)
(* (db/validators/command_validator.rb).                                   *)
(*                                                                         *)
(* A Ruby value is a pair of its class and of what the code can tell about *)
(* it.  The strings a command can carry:                                   *)
(*   "0", "1"  a lamp's or a bar's value                                   *)
(*   "empty"   the empty string                                            *)
(*   "digits"  digits and blanks, at most as many as there are tubes       *)
(*   "format"  a time format, such as %H%M%S                               *)
(*   "ratio"   attendees:rate, such as 200:300                             *)
(*   "rate"    the same after a blank: the web server pads values          *)
(*             (web_server.rb:349)                                         *)
(* Numbers: "0", "1", and "seconds", what a countdown leaves in its value. *)
(***************************************************************************)

Nil    == <<"NilClass", "nil">>
Str(s) == <<"String", s>>
Sym(s) == <<"Symbol", s>>
Num(s) == <<"Numeric", s>>

IsString(v) == v[1] = "String"

Texts  == {"0", "1", "empty", "digits", "format", "ratio", "rate"}
Values == {Nil} \cup {Str(s) : s \in Texts} \cup {Num(s) : s \in {"0", "1", "seconds"}}

States == {"startup", "animation", "free_value", "time", "countdown",
           "meeting_ticker", "blink"}

GotoValues  == {Nil} \cup {Str(s) : s \in States}
StateValues == GotoValues \cup {Sym(s) : s \in States}

\* An options hash: its goto_state, with which come a start_value and a goto_target
\* (the machine itself), and the key a countdown looks for when it is over.
\* A name is that of an animation made for the machine, or of none at all.
Options   == [goto : GotoValues, atEnd : {"nothing", "say", "state"}]
NoOptions == [goto |-> Nil, atEnd |-> "nothing"]
Names     == {"none", "known", "unknown"}

Command == [state : StateValues,
            value : Values,
            name : Names,
            options : Options,
            lock  : {Nil, Str("lock"), Str("unlock")}]

SetState(state, value) ==
    [state |-> state, value |-> value, name |-> "none", options |-> NoOptions, lock |-> Nil]

Lamps == {"lamp0", "lamp1", "lamp2", "lamp3", "lamp4"}
Bars  == {"bar0", "bar1", "bar2", "bar3"}

\* validate_animation: there is a name, known or not, and the options name the
\* state to go to.
HasOptions(c) == c.name # "none" /\ c.options.goto # Nil

\* validate_tubes.  A free_value without a value makes it raise an exception
\* (line 37, nil.size), which rejects the command as well.
ValidForTubes(c) ==
    \/ c.state = Str("free_value") /\ c.value \in {Str("empty"), Str("digits"), Str("0"), Str("1")}
    \/ c.state = Str("time") /\ c.value \in {Nil, Str("empty"), Str("format")}
    \/ c.state = Str("animation") /\ HasOptions(c)
    \/ c.state = Str("countdown") /\ c.value \in {Str("digits"), Str("ratio"), Str("rate")}
    \/ c.state = Str("meeting_ticker") /\ c.value \in {Str("ratio"), Str("rate")}

\* Every value of the model is 0 or 1 for to_i, or is cut off to 0.
ValidForLamp(c) == c.state \in {Str("free_value"), Str("blink")}

ValidForBar(c) ==
    \/ c.state = Str("free_value")
    \/ c.state = Str("animation") /\ HasOptions(c)

Valid(target, c) ==
    \/ target = "tubes" /\ ValidForTubes(c)
    \/ target \in Lamps /\ ValidForLamp(c)
    \/ target \in Bars /\ ValidForBar(c)
=============================================================================
