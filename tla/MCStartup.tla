----------------------------- MODULE MCStartup -----------------------------
(* Endpoints for Startup: one answer of each kind the probe tells apart. *)
EXTENDS Startup

Names == {"get_weather", "other"}
Plain == [request |-> "answered", status |-> "2xx", body |-> "completion", calls |-> <<>>,
          content |-> "prose", mentions |-> FALSE]
Calling(entries) == [Plain EXCEPT !.calls = entries, !.content = "null"]
Entry(name, args) == [name |-> name, args |-> args]
Weather == Entry("get_weather", "valid")

MCAnswers ==
  {Plain, [Plain EXCEPT !.content = "markup"], [Plain EXCEPT !.request = "fails"],
   [Plain EXCEPT !.request = "raises"], [Plain EXCEPT !.body = "too_deep"],
   [Plain EXCEPT !.status = "other", !.mentions = TRUE],
   [Plain EXCEPT !.body = "not_json", !.content = "null"],
   [Plain EXCEPT !.body = "not_completion", !.content = "null"],
   Calling(<<Weather>>), Calling(<<Weather, Entry("other", "malformed")>>),
   Calling(<<Entry("get_weather", "malformed")>>), Calling(<<Entry("other", "valid"), Weather>>),
   Calling(<<Entry(NoName, "valid"), Weather>>), Calling(<<Entry("get_weather", "exploding")>>)}
=============================================================================
