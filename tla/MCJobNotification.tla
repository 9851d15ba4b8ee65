-------------------------- MODULE MCJobNotification --------------------------
(* One scheduled job that its handler may fail, and two webhooks of its owner:
   one takes requests, the other redirects them there.                      *)
EXTENDS JobNotification, TLC

CONSTANTS j1, t1, u, near, far, w1, s1, front, final

OneJob     == {j1}
OneTask    == {t1}
OfJob      == t1 :> j1
First      == j1 :> t1
Webhooks   == {[type |-> "webhook", bad |-> FALSE, max |-> 1, key |-> NoKey, later |-> TRUE]}
OneSlot    == {w1}
OneSender  == {s1}
TwoHooks   == {near, far}
OneUser    == {u}
Calls      == 1 .. 4
TheUser    == j1 :> u
ByUser     == [e \in Calls |-> u]
Owners     == near :> u @@ far :> u
Sites      == near :> {final} @@ far :> {front}
TwoUrls    == {front, final}
Hosts      == [v \in TwoUrls |-> {"public"}]
Servers    == front :> {[kind |-> "kept", to |-> final]}
              @@ final :> {[kind |-> "ok", to |-> NoUrl]}
=============================================================================
