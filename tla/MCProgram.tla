---- MODULE MCProgram ----
EXTENDS ProgramEngine
P(output, mode, semantics, risk, timing, latency, micro) ==
    [output |-> output, mode |-> mode, semantics |-> semantics, stop |-> risk[1], take |-> risk[2],
     trail |-> risk[3], timing |-> timing, latency |-> latency, micro |-> micro]
NoRiskLimits == <<0, 0, 0>>
MCPrograms ==
    {P("target", m, "target_position", r, "next_bar_open", l, FALSE) :
        m \in {"long_only", "long_short"}, r \in {<<20, 0, 0>>, <<0, 40, 30>>}, l \in {0, 1}}
    \cup {P("target", "long_short", "target_position", NoRiskLimits, t, 0, u) :
        t \in {"bar_close", "next_bar_open"}, u \in BOOLEAN}
    \cup {P("signals", m, s, NoRiskLimits, "bar_close", 1, FALSE) :
        m \in {"long_only", "long_short"}, s \in {"target_position", "legacy_events"}}
    \cup {P("events", m, "legacy_events", <<20, 0, 0>>, "bar_close", 0, FALSE) : m \in {"long_only", "long_short"}}
Ev(e, x, se, sx) == [entry |-> e, exit |-> x, shortEntry |-> se, shortExit |-> sx]
T == TRUE
F == FALSE
MCRaws == [target |-> {-2, 0, 1, 2}, signals |-> {-1, 0, 1},
           events |-> {Ev(T, F, F, F), Ev(F, T, F, F), Ev(F, F, T, F), Ev(F, F, F, T), Ev(T, T, F, F),
                       Ev(T, F, F, T), Ev(F, T, T, F), Ev(F, F, F, F)}]
MCCaps == {<<1, 1>>, <<2, 0>>, <<0, 3>>, <<1, 0, 2>>}
====
