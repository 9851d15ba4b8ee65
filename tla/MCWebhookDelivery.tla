-------------------------- MODULE MCWebhookDelivery --------------------------
(* Two webhooks of one owner and two events, one of a job without owner.  good
   is redirected twice, as often as the cap allows, to a receiver that takes
   it; bad is registered with a URL that cannot be requested, or with a host
   whose address changes and which fails, answers too late or redirects to
   itself or to good's receiver.                                            *)
EXTENDS WebhookDelivery, TLC

CONSTANTS e1, e2, good, bad, u, s1, front, middle, final, flaky, broken

TwoEvents  == {e1, e2}
TwoHooks   == {good, bad}
Deliveries == TwoEvents \X TwoHooks
OneUser    == {u}
OneSender  == {s1}
AllUrls    == {front, middle, final, flaky, broken}
Requestable == AllUrls \ {broken}
ByUser     == e1 :> u @@ e2 :> NoUser
Owners     == good :> u @@ bad :> u
Sites      == good :> {front} @@ bad :> {flaky, broken}
Answer(k)  == [kind |-> k, to |-> NoUrl]
To(k, v)   == [kind |-> k, to |-> v]
Hosts      == front :> {"public"} @@ middle :> {"public"} @@ final :> {"public"}
              @@ flaky :> {"public", "special", "loopback", "none"}
              @@ broken :> {"none"}
Servers    == front :> {To("kept", middle)} @@ middle :> {To("kept", final)}
              @@ final :> {Answer("ok")}
              @@ flaky :> {Answer("error"), Answer("silent"), To("kept", flaky),
                           To("moved", final)}
              @@ broken :> {Answer("error")}
=============================================================================
