---------------------------- MODULE MCAgentLoop ----------------------------
(***************************************************************************)
(* Endpoints for AgentLoop: replies of at most two calls.                  *)
(***************************************************************************)
EXTENDS AgentLoop

(* Two local tools, two network tools of which one is allowed, and a name  *)
(* that is allowed without being registered.                               *)
MCToolNames == {"read_file", "propose_tool", "fetch", "search", "no_such_tool"}
MCRegistered == {"read_file", "propose_tool", "fetch", "search"}
MCNetwork == {"fetch", "search"}
MCAllowed == {"search", "no_such_tool"}

Reply200(entries) == [request |-> "answered", status |-> "2xx", body |-> "completion",
                      calls |-> entries, content |-> "prose", mentions |-> FALSE]
Entry(name, args) == [name |-> name, args |-> args]
NoReply == [Reply200(<<>>) EXCEPT !.request = "fails"]

Well == {Entry("read_file", "valid"), Entry("read_file", "invalid"), Entry("fetch", "valid"),
         Entry("read_file", "malformed")}
Pairs(S) == {<<a, b>> : a \in S, b \in S}

(* Every reply with up to two of the calls in Well, and every failure. *)
MCAnswers ==
  {Reply200(<<>>), NoReply, [Reply200(<<>>) EXCEPT !.status = "other"],
   [Reply200(<<>>) EXCEPT !.body = "not_completion"],
   Reply200(<<Entry(NoName, "valid")>>),
   Reply200(<<Entry("search", "valid"), Entry("no_such_tool", "valid")>>)}
    \cup {Reply200(<<e>>) : e \in Well}
    \cup {Reply200(q) : q \in Pairs(Well)}

(* A few replies, for longer conversations. *)
FewAnswers ==
  {Reply200(<<>>), NoReply, Reply200(<<Entry("propose_tool", "valid")>>),
   Reply200(<<Entry("read_file", "malformed"), Entry("fetch", "valid")>>),
   Reply200(<<Entry("search", "valid"), Entry("no_such_tool", "valid")>>)}

(* An entry whose arguments hold an integer of more than 4300 digits. *)
ExplodingAnswers == FewAnswers \cup {Reply200(<<Entry("read_file", "exploding")>>)}

(* A request that cannot be encoded as well. *)
EscapingAnswers == ExplodingAnswers \cup {[NoReply EXCEPT !.request = "raises"]}
=============================================================================
