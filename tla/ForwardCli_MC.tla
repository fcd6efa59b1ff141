---------------------------- MODULE ForwardCli_MC ----------------------------
(* All command lines that differ in one or two respects from a good one, and *)
(* the connection loop in units of ten seconds, of which all thresholds of   *)
(* the code (20, 30 and 90 s) are multiples.                                 *)
EXTENDS ForwardCli

Remote == [first |-> "", local |-> "", remote |-> "good", args |-> "good", ip |-> "",
           tokens |-> {}, unreadable |-> {}]
Local == [Remote EXCEPT !.local = "good", !.remote = ""]

SomeCommands ==
  {Remote, Local}
  \cup {[Remote EXCEPT !.first = f] : f \in {"--frp", "-version"}}
  \cup {[Remote EXCEPT !.local = l, !.remote = r] :
          l \in {"", "good", "bad"}, r \in {"", "good", "bad"}}
  \cup {[c EXCEPT !.args = "bad"] : c \in {Remote, Local}}
  \cup {[c EXCEPT !.ip = i] : c \in {Remote, Local}, i \in {"addr", "host", "bad"}}
  \cup {[Local EXCEPT !.tokens = t, !.unreadable = TokenFiles] : t \in SUBSET TokenSources}

=============================================================================
