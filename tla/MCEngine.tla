------------------------------- MODULE MCEngine -------------------------------
(* What a turn runs on, each part on its own: the calls to the providers, the messages sent to *)
(* a model, the streamed tool calls, the files the tools edit, the tool calls of turns and     *)
(* subagents, the MCP servers. A behaviour is one of one part.                                 *)
EXTENDS ProviderCalls, MessageShaping, ToolStream, FileEdits, ToolCalls, McpServers

CONSTANT Parts  \* the parts of the run
VARIABLE part   \* the one whose behaviour this is

\* An agent allowed everything and one whose list leaves out what it may be asked for.
AllowLists == {{"*"}, {"search", "spawn"}}
\* One server, and one more before it.
ServerLists == {<<"x", "y">>, <<"y">>}

Others(p) ==
    /\ UNCHANGED part
    /\ IF p = "provider" THEN TRUE ELSE UNCHANGED providerVars
    /\ IF p = "messages" THEN TRUE ELSE UNCHANGED shapeVars
    /\ IF p = "stream" THEN TRUE ELSE UNCHANGED toolVars
    /\ IF p = "files" THEN TRUE ELSE UNCHANGED fileVars
    /\ IF p = "tools" THEN TRUE ELSE UNCHANGED callVars
    /\ IF p = "mcp" THEN TRUE ELSE UNCHANGED mcpVars

Init ==
    /\ part \in Parts /\ ProviderInit /\ ShapeInit /\ ToolInit /\ FileInit /\ CallsInit /\ McpInit
    \* What a part chooses in the beginning is chosen for that part alone.
    /\ part # "stream" => /\ api = (CHOOSE a \in StreamApis : TRUE) /\ ~ reused
                          /\ pathOf = (CHOOSE f \in [StreamCalls -> Paths] : TRUE)
    /\ part # "files" => disk = [f \in Files |-> NoFile]
    /\ part # "tools" => allowList = (CHOOSE l \in AgentLists : TRUE)
    /\ part # "mcp" => servers = (CHOOSE c \in Configs : TRUE)

Next ==
    \/ part = "provider" /\ ProviderNext /\ Others("provider")
    \/ part = "messages" /\ ShapeNext /\ Others("messages")
    \/ part = "stream" /\ ToolNext /\ Others("stream")
    \/ part = "files" /\ FileNext /\ Others("files")
    \/ part = "tools" /\ CallsNext /\ Others("tools")
    \/ part = "mcp" /\ McpNext /\ Others("mcp")

vars == <<part, providerVars, shapeVars, toolVars, fileVars, callVars, mcpVars>>

Spec == Init /\ [][Next]_vars
================================================================================
