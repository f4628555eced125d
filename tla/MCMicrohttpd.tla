---------------------------- MODULE MCMicrohttpd ----------------------------
(***************************************************************************)
(* Two connections: scrapes, pages, a GET with a body and a POST.          *)
(***************************************************************************)
EXTENDS Microhttpd

CONSTANTS t1, t2

MCThreads == {t1, t2}

\* Exactly as many descriptors as two connections and two scrapes need, one
\* too few, and two too few with a number that does not fit an int.
MCProcesses ==
  { [limit |-> 5, spaced |-> FALSE, fits |-> {"btime", "limits"}],
    [limit |-> 4, spaced |-> TRUE, fits |-> {"btime", "limits"}],
    [limit |-> 3, spaced |-> FALSE, fits |-> {"limits"}],
    [limit |-> 3, spaced |-> FALSE, fits |-> {"btime"}] }

MCRequests ==
  { [method |-> "GET", url |-> "/metrics", upload |-> FALSE],
    [method |-> "GET", url |-> "/", upload |-> FALSE],
    [method |-> "GET", url |-> "/", upload |-> TRUE],
    [method |-> "POST", url |-> "/", upload |-> TRUE] }
=============================================================================
