----------------------------- MODULE MCDisplay -----------------------------
(***************************************************************************)
(* Instances of Display: which machines, and what is sent to them.         *)
(***************************************************************************)
EXTENDS Display

To(m, s, value) == [to |-> m, cmd |-> SetState(Str(s), value)]
Animate(name)   == [To("tubes", "animation", Nil) EXCEPT !.cmd.name = name,
                                                         !.cmd.options.goto = Str("time")]

ShowDigits == To("tubes", "free_value", Str("digits"))
CountDown  == To("tubes", "countdown", Str("digits"))
CountDownThen(key) == [CountDown EXCEPT !.cmd.options.atEnd = key]
Meeting    == To("tubes", "meeting_ticker", Str("rate"))
BadMeeting == To("tubes", "meeting_ticker", Str("ratio"))
BlinkLamp  == To("lamp3", "blink", Nil)

Lock(m) == [m EXCEPT !.cmd.lock = Str("lock")]

MCTubes ==
    {ShowDigits, Animate("known"), Animate("unknown"), CountDown, CountDownThen("say"),
     Lock(CountDownThen("state")), Meeting, Lock(BadMeeting), BlinkLamp}
MCCountDown == {CountDown}
=============================================================================
