------------------------------- MODULE MCSync -------------------------------
(***************************************************************************)
(* Instances of SyncClient for TLC.  The other host redirects from one     *)
(* page to itself, by an absolute and by a relative Location.              *)
(***************************************************************************)
EXTENDS SyncClient, TLC

CONSTANTS own, other

Ask(u, m) == [url |-> u, method |-> m]
MCOwn   == Ask(Url(own, "page", FALSE, <<>>), "POST")
MCOther == Ask(Url(other, "page", FALSE, <<>>), "GET")
MCOld   == Ask(Url(other, "old", TRUE, <<>>), "POST")
MCPlans == {<<MCOther, MCOther, MCOld>>, <<MCOther, MCOther, MCOwn>>,
            <<MCOwn, MCOther, MCOwn>>, <<MCOwn, MCOwn, MCOther>>}
MCLocation ==
  [p \in {"old"} |->
     {[kind |-> "absolute", host |-> other, path |-> "old", query |-> TRUE],
      [kind |-> "relative", host |-> other, path |-> "page", query |-> FALSE]}]

=============================================================================
