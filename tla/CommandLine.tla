---------------------------- MODULE CommandLine -----------------------------
(***************************************************************************)
(* The command line of mieru and mita (pkg/cli/parser.go): the commands    *)
(* that each program registers, in this order, the first one whose words   *)
(* begin the line, and what the help lists.                                *)
(*                                                                         *)
(* A line is the sequence of words after the name of the program.  args is *)
(* how many words a command takes after its own.                           *)
(***************************************************************************)
EXTENDS Integers, Sequences

Any == 1 .. 9  \* bound: user names given to delete user
Hook(words, args, func) == [words |-> words, args |-> args, func |-> func]

ClientConfigHooks == <<
    Hook(<<"help">>, {0}, "clientHelpFunc"),
    Hook(<<"start">>, {0}, "clientStartFunc"),
    Hook(<<"run">>, {0}, "clientRunFunc"),
    Hook(<<"stop">>, {0}, "clientStopFunc"),
    Hook(<<"status">>, {0}, "clientStatusFunc"),
    Hook(<<"test">>, {0, 1}, "clientTestFunc"),
    Hook(<<"apply", "config">>, {1}, "clientApplyConfigFunc"),
    Hook(<<"replace", "config">>, {1}, "clientReplaceConfigFunc"),
    Hook(<<"describe", "config">>, {0}, "clientDescribeConfigFunc"),
    Hook(<<"describe", "effective-traffic-pattern">>, {0}, "clientDescribeEffectiveTrafficPatternFunc"),
    Hook(<<"import", "config">>, {1}, "clientImportConfigFunc"),
    Hook(<<"export", "config", "simple">>, {0}, "clientExportConfigSimpleFunc"),
    Hook(<<"export", "config">>, {0}, "clientExportConfigFunc"),
    Hook(<<"export", "traffic-pattern">>, {0}, "clientExportTrafficPatternFunc"),
    Hook(<<"explain", "config">>, {1}, "clientExplainConfigFunc"),
    Hook(<<"explain", "traffic-pattern">>, {1}, "explainTrafficPatternFunc")>>

ClientOtherHooks == <<
    Hook(<<"delete", "profile">>, {1}, "clientDeleteProfileFunc"),
    Hook(<<"delete", "http", "proxy">>, {0}, "clientDeleteHTTPProxyFunc"),
    Hook(<<"delete", "socks5", "authentication">>, {0}, "clientDeleteSocks5AuthenticationFunc"),
    Hook(<<"version">>, {0}, "versionFunc"),
    Hook(<<"describe", "build">>, {0}, "describeBuildFunc"),
    Hook(<<"check", "update">>, {0}, "clientCheckUpdateFunc"),
    Hook(<<"get", "metrics">>, {0}, "clientGetMetricsFunc"),
    Hook(<<"get", "connections">>, {0}, "clientGetConnectionsFunc"),
    Hook(<<"get", "thread-dump">>, {0}, "clientGetThreadDumpFunc"),
    Hook(<<"get", "heap-profile">>, {1}, "clientGetHeapProfileFunc"),
    Hook(<<"get", "memory-statistics">>, {0}, "clientGetMemoryStatisticsFunc"),
    Hook(<<"profile", "cpu", "start">>, {1}, "clientStartCPUProfileFunc"),
    Hook(<<"profile", "cpu", "stop">>, {0}, "clientStopCPUProfileFunc")>>

ServerConfigHooks == <<
    Hook(<<"help">>, {0}, "serverHelpFunc"),
    Hook(<<"start">>, {0}, "serverStartFunc"),
    Hook(<<"run">>, {0}, "serverRunFunc"),
    Hook(<<"stop">>, {0}, "serverStopFunc"),
    Hook(<<"reload">>, {0}, "serverReloadFunc"),
    Hook(<<"status">>, {0}, "serverStatusFunc"),
    Hook(<<"apply", "config">>, {1}, "serverApplyConfigFunc"),
    Hook(<<"replace", "config">>, {1}, "serverReplaceConfigFunc"),
    Hook(<<"describe", "config">>, {0}, "serverDescribeConfigFunc"),
    Hook(<<"describe", "effective-traffic-pattern">>, {0}, "serverDescribeEffectiveTrafficPatternFunc"),
    Hook(<<"export", "traffic-pattern">>, {0}, "serverExportTrafficPatternFunc"),
    Hook(<<"explain", "traffic-pattern">>, {1}, "explainTrafficPatternFunc"),
    Hook(<<"delete", "user">>, Any, "serverDeleteUserFunc")>>

ServerOtherHooks == <<
    Hook(<<"version">>, {0}, "versionFunc"),
    Hook(<<"describe", "build">>, {0}, "describeBuildFunc"),
    Hook(<<"check", "update">>, {0}, "serverCheckUpdateFunc"),
    Hook(<<"get", "metrics">>, {0}, "serverGetMetricsFunc"),
    Hook(<<"get", "connections">>, {0}, "serverGetConnectionsFunc"),
    Hook(<<"get", "users">>, {0}, "serverGetUsersFunc"),
    Hook(<<"get", "quotas">>, {0}, "serverGetQuotasFunc"),
    Hook(<<"get", "thread-dump">>, {0}, "serverGetThreadDumpFunc"),
    Hook(<<"get", "heap-profile">>, {1}, "serverGetHeapProfileFunc"),
    Hook(<<"get", "memory-statistics">>, {0}, "serverGetMemoryStatisticsFunc"),
    Hook(<<"profile", "cpu", "start">>, {1}, "serverStartCPUProfileFunc"),
    Hook(<<"profile", "cpu", "stop">>, {0}, "serverStopCPUProfileFunc")>>

Hooks(binary) ==
    IF binary = "mieru" THEN ClientConfigHooks \o ClientOtherHooks ELSE ServerConfigHooks \o ServerOtherHooks

\* The lines of the help, entries and advanced, by the number of arguments.
clientHelp == [
    none |-> {<<"help">>, <<"start">>, <<"stop">>, <<"status">>, <<"test">>, <<"describe", "config">>,
              <<"describe", "effective-traffic-pattern">>, <<"export", "config", "simple">>, <<"export", "config">>,
              <<"export", "traffic-pattern">>, <<"delete", "http", "proxy">>, <<"delete", "socks5", "authentication">>,
              <<"get", "metrics">>, <<"get", "connections">>, <<"version">>, <<"check", "update">>, <<"run">>,
              <<"describe", "build">>, <<"get", "thread-dump">>, <<"get", "memory-statistics">>,
              <<"profile", "cpu", "stop">>},
    one |-> {<<"test">>, <<"apply", "config">>, <<"replace", "config">>, <<"import", "config">>, <<"explain", "config">>,
             <<"explain", "traffic-pattern">>, <<"delete", "profile">>, <<"get", "heap-profile">>,
             <<"profile", "cpu", "start">>}]

serverHelp == [
    none |-> {<<"help">>, <<"start">>, <<"stop">>, <<"reload">>, <<"status">>, <<"describe", "config">>,
              <<"describe", "effective-traffic-pattern">>, <<"export", "traffic-pattern">>, <<"get", "metrics">>,
              <<"get", "connections">>, <<"get", "users">>, <<"get", "quotas">>, <<"version">>, <<"check", "update">>,
              <<"run">>, <<"describe", "build">>, <<"get", "thread-dump">>, <<"get", "memory-statistics">>,
              <<"profile", "cpu", "stop">>},
    one |-> {<<"apply", "config">>, <<"replace", "config">>, <<"explain", "traffic-pattern">>, <<"delete", "user">>,
             <<"get", "heap-profile">>, <<"profile", "cpu", "start">>}]

-----------------------------------------------------------------------------

\* Does the line begin with the words?
doExactMatch(line, words) ==
    Len(line) >= Len(words) /\ \A i \in DOMAIN words : line[i] = words[i]

\* The function that runs, or "error"; of the commands that match only the first
\* is tried.  The argument of test must be a web address.
ParseAndExecute(hooks, line) ==
    LET matching == {i \in DOMAIN hooks : doExactMatch(line, hooks[i].words)}
        hook == hooks[CHOOSE i \in matching : \A j \in matching : i <= j]
    IN IF /\ matching # {}
          /\ Len(line) - Len(hook.words) \in hook.args
          /\ hook.func = "clientTestFunc" /\ Len(line) = 2 => line[2] = "http://url"
       THEN hook.func ELSE "error"

\* No command is hidden by one registered before it: its words and as many
\* arguments as it takes run it, and the help lists exactly these lines (with
\* at most one argument).
EveryCommandRuns(binary, words, n) ==
    LET hooks == Hooks(binary)
        help == IF binary = "mieru" THEN clientHelp ELSE serverHelp
        line == words \o [i \in 1 .. n |-> "http://url"]
        Takes(i) == hooks[i].words = words /\ n \in hooks[i].args
    IN /\ \A i \in DOMAIN hooks : Takes(i) => ParseAndExecute(hooks, line) = hooks[i].func
       /\ n <= 1 => ((words \in IF n = 0 THEN help.none ELSE help.one) <=> \E i \in DOMAIN hooks : Takes(i))

=============================================================================
