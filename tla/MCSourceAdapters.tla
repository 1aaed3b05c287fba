-------------------------- MODULE MCSourceAdapters --------------------------
(* Four postings on pages of two; postings 1 and 2 have the same title.    *)
EXTENDS SourceAdapters, TLC

MCJobs == 1 .. 4
MCTitle == <<1, 1, 3, 4>>
MCMaxPages ==
  [a \in Adapters |-> CASE a = "linkedin" -> 4 [] a = "generic" -> 3 [] OTHER -> 2]

MCHosts ==
  {Host(<<"jobs">>, "lever.co"), Host(<<"acme">>, "darwinbox.com"),
   Host(<<"acme">>, "xdarwinbox.com"), Host(<<"acme">>, "applytojob.com"),
   Host(<<"a", "acme">>, "applytojob.com"), Host(<<"acme">>, "dream.jobs"),
   Host(<<"www">>, "dream.jobs"), Host(<<"acme">>, "zohorecruit.com"),
   Host(<<"boards">>, "greenhouse.io"), Host(<<"www">>, "acme.com")}
MCPaths ==
  {<<>>, <<"acme">>, <<"Acme">>, <<"acme", "1">>, <<"apply">>, <<"apply", "jobs">>, <<"jobs">>,
   <<"jobs", "acme">>, <<"Jobs", "acme">>, <<"jobs", "page", "2">>,
   <<"ms", "candidate", "careers">>, <<"ms", "candidatev2", "acme", "careers">>,
   <<"ms", "candidatev2", "main", "careers">>, <<"%61cme">>, <<"a%2Fb">>,
   <<"ms", "candidatev2", "%61cme", "careers">>}
Segments == UNION {Range(p) : p \in MCPaths}
MCFold == [s \in Segments |-> CASE s = "Acme" -> "acme" [] s = "Jobs" -> "jobs" [] OTHER -> s]
MCDecode ==
  [s \in Segments |-> CASE s = "%61cme" -> "acme" [] s = "a%2Fb" -> "a/b" [] OTHER -> s]
MCLinks ==
  {[scheme |-> "https", host |-> h, path |-> <<"jobs", "acme">>, extra |-> "none"] : h \in
     {Host(<<"www">>, "acme.com")}}
=============================================================================
