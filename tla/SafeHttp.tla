------------------------------ MODULE SafeHttp ------------------------------
(***************************************************************************)
(* pkg/safehttp/client.go: http.Client.Do behind the dial guard and the    *)
(* redirect cap.  Do is a loop of requests: each resolves its host anew,   *)
(* dials, and is answered; an answer may redirect it.  The resolver and    *)
(* the receivers are the world: Resolves and Replies say what they can do. *)
(***************************************************************************)
EXTENDS Naturals

CONSTANTS Senders,       \* goroutines that call Do
          Urls, NoUrl,
          Resolves,      \* Resolves[u]: kinds of address u's host resolves to
          Replies,       \* Replies[u]: what a receiver at u may answer
          AllowPrivate   \* WEBHOOK_ALLOW_PRIVATE

Address == {"public", "loopback", "private", "linkLocal", "unspecified",
            "special",   \* any other range that is not public
            "none"}      \* no address, or nobody listens there

Reply == [kind : {"ok",       \* status below 400, no redirect
                  "error",    \* status 400 or above
                  "silent",   \* it takes the request, the answer is too late
                  "moved",    \* 301, 302, 303
                  "kept"},    \* 307, 308
          to : Urls \cup {NoUrl}]

Redirects == {"moved", "kept"}

ASSUME SafeHttpAssumption ==
  /\ NoUrl \notin Urls /\ AllowPrivate \in BOOLEAN
  /\ Resolves \in [Urls -> SUBSET Address]
  /\ Replies \in [Urls -> SUBSET Reply]
  /\ \A u \in Urls : \A r \in Replies[u] : r.kind \in Redirects => r.to \in Urls

VARIABLE request         \* the request each client has under way

Requests  == [url : Urls \cup {NoUrl}, via : 0 .. 2, post : BOOLEAN]
NoRequest == [url |-> NoUrl, via |-> 0, post |-> FALSE]

HttpTypeOK == request \in [Senders -> Requests]
HttpInit   == request = [c \in Senders |-> NoRequest]

-----------------------------------------------------------------------------
(* A deny-list: it names the ranges that are refused. *)
isBlocked(a) == a \in {"loopback", "private", "linkLocal", "unspecified"}

(* The dialer's Control hook, for the address about to be connected to. *)
Control(a) == AllowPrivate \/ ~isBlocked(a)

Dials(a) == a # "none" /\ Control(a)

(* Mutant: one request more. *)
CheckRedirect_More(c) == ~(request[c].via + 1 > 3)

(* Mutant: one request less. *)
CheckRedirect_Fewer(c) == ~(request[c].via + 1 >= 2)

(* len(via) counts the requests already made, this one included. *)
CheckRedirect(c) == ~(request[c].via + 1 >= 3)

(* net/http: a redirect that is not 307 or 308 turns a POST into a GET
   without a body.                                                         *)
Follow(c, r) == [url  |-> r.to,
                 via  |-> request[c].via + 1,
                 post |-> request[c].post /\ r.kind = "kept"]

Begin(c, u) ==
  request' = [request EXCEPT ![c] = [url |-> u, via |-> 0, post |-> TRUE]]

Drop(cs) ==
  request' = [c \in Senders |-> IF c \in cs THEN NoRequest ELSE request[c]]

(* One request of Do: "again" when it is redirected, else what Do returns. *)
Exchange(c, result) ==
  \E a \in Resolves[request[c].url], r \in Replies[request[c].url] :
    LET next == IF ~Dials(a) THEN "failed"
                ELSE IF r.kind \notin Redirects THEN r.kind
                ELSE IF CheckRedirect(c) THEN "again" ELSE "failed"
    IN /\ result = next
       /\ request' = [request EXCEPT ![c] =
                        IF next = "again" THEN Follow(c, r) ELSE NoRequest]

Results == {"again", "ok", "error", "silent", "failed"}
=============================================================================
