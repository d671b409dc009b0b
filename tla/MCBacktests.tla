---- MODULE MCBacktests ----
\* The assistant that writes strategies, the two engines that test them, the chat
\* and the library of reports share nothing that is modelled: each behaviour is
\* one of theirs, chosen at the start.
EXTENDS MCDaily, MCProgram, MCAssistant, ChatSession, ReportLibrary
VARIABLE lane
AnyOf(S) == CHOOSE x \in S : TRUE
webVars == <<chatVars, libraryVars>>
Init ==
    /\ lane \in {"daily", "program", "assistant", "chat", "library"}
    /\ EngineInit /\ (lane # "daily" => <<cfg, months>> = AnyOf(Backtests))
    /\ ProgramInit /\ (lane # "program" => program = AnyOf(Programs))
    /\ ChatInit
    /\ lane # "chat" => storage.address = AnyOf(Addresses) /\ storage.conversation = NoConversation
    /\ LibraryInit /\ (lane # "library" => wallet = AnyOf(Holders))
    /\ AssistantInit
Daily == lane = "daily" /\ EngineNext /\ UNCHANGED <<lane, programVars, assistantVars, webVars>>
Program == lane = "program" /\ ProgramNext /\ UNCHANGED <<lane, engineVars, assistantVars, webVars>>
Assistant == lane = "assistant" /\ AssistantNext /\ UNCHANGED <<lane, engineVars, programVars, webVars>>
Chat == lane = "chat" /\ ChatNext
    /\ UNCHANGED <<lane, engineVars, programVars, assistantVars, libraryVars>>
Library == lane = "library" /\ LibraryNext
    /\ UNCHANGED <<lane, engineVars, programVars, assistantVars, chatVars>>
Next == Daily \/ Program \/ Assistant \/ Chat \/ Library
Spec == Init /\ [][Next]_<<lane, engineVars, programVars, assistantVars, webVars>>
====
