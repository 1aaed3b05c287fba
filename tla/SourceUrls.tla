----------------------------- MODULE SourceUrls -----------------------------
(***************************************************************************)
(* Addresses of job listings, and the two readings that the program has of *)
(* them: the detectors of discovery/detectors.py, which recognise a        *)
(* platform and write its canonical address, and the *_source_from_url of  *)
(* the adapters, which accept an address and read the listing from it.     *)
(*                                                                         *)
(* An address is a scheme, a host (labels before a domain), the segments   *)
(* of the path, and what it may also have: credentials, a port, or the     *)
(* port that its scheme has anyway ("default"). It has no query. A body is *)
(* the set of platforms whose signals are in a page.                       *)
(***************************************************************************)
EXTENDS SequencesExt

CONSTANTS
  Hosts, Paths,
  Fold,         \* str.casefold of the path segments
  Decode,       \* urllib's unquote of the path segments
  Unfit,        \* names that no tenant has: empty, with a slash or white space
  Marked        \* segments that say career, job, vacan or opening

(* The words that addresses are compared with are in lower case.           *)
Words == {"jobs", "apply", "page", "ms", "candidate", "candidatev2", "careers", "main"}
ASSUME UrlAssumption ==
  /\ \A p \in Paths : p \in Seq(DOMAIN Fold)
  /\ \A w \in Words : w \in DOMAIN Fold /\ Fold[w] = w
  /\ DOMAIN Decode = DOMAIN Fold /\ \A w \in Words : Decode[w] = w

Extras == {"none", "default", "port", "user"}
Urls == [scheme : {"http", "https"}, host : Hosts, path : Paths, extra : Extras]
Bodies == SUBSET {"dreamjobs", "zoho_recruit"}

Host(label, domain) == [label |-> label, domain |-> domain]
Under(u, domain) == u.host.domain = domain /\ u.host.label # <<>>
Starts(u, parts) == IsPrefix(parts, u.path)

(* canonicalize_url refuses credentials. It keeps a port that is written,  *)
(* and every escape of the path: the rest of it is the identity on         *)
(* addresses that are written in lower case and without a fragment.        *)
Public(u) == u.extra # "user"

(* _root keeps the scheme and the host, and drops a port.                  *)
Root(u, parts) == [u EXCEPT !.path = parts, !.extra = "none"]

-----------------------------------------------------------------------------
(* The catalog of detectors: matcher, canonical address, tenant.           *)

LeverHost == Host(<<"jobs">>, "lever.co")
LeverMatches(u) == u.host = LeverHost /\ u.path # <<>>
LeverRoot(u) == Root(u, <<u.path[1]>>)
PathTenant(u) == <<u.host, Fold[u.path[1]]>>

(* The suffix of Darwinbox has no dot.                                     *)
Careers == <<"ms", "candidate", "careers">>
CareersV2(u) == /\ Len(u.path) >= 4 /\ Starts(u, <<"ms", "candidatev2">>)
                /\ u.path[4] = "careers"
DarwinboxMatches(u) ==
  /\ u.host.domain \in {"darwinbox.com", "xdarwinbox.com"}
  /\ Starts(u, Careers) \/ CareersV2(u)
DarwinboxRoot(u) ==
  Root(u, IF CareersV2(u) THEN SubSeq(u.path, 1, 4) ELSE Careers)
DarwinboxTenant(u) == <<u.host, IF CareersV2(u) THEN Fold[u.path[3]] ELSE "main">>

JazzHRMatches(u) == Under(u, "applytojob.com")
JazzHRRoot(u) == Root(u, <<"apply">>)

DreamJobsMatches(u, body) ==
  /\ u.host.domain = "dream.jobs" => u.host.label \notin {<<>>, <<"www">>, <<"business">>, <<"api">>}
  /\ Starts(u, <<"jobs">>)
  /\ Under(u, "dream.jobs") \/ "dreamjobs" \in body
DreamJobsRoot(u) == Root(u, <<"jobs">>)

ZohoMatches(u, body) ==
  /\ Len(u.path) >= 2 /\ Fold[u.path[1]] = "jobs"
  /\ Under(u, "zohorecruit.com") \/ "zoho_recruit" \in body
ZohoRoot(u) == Root(u, <<"jobs", u.path[2]>>)

(* One platform of those that have no adapter stands for all of them.      *)
GreenhouseMatches(u) == u.host = Host(<<"boards">>, "greenhouse.io") /\ u.path # <<>>
FirstPathRoot(u) == Root(u, <<u.path[1]>>)

Matches(p, u, body) ==
  CASE p = "lever" -> LeverMatches(u)
    [] p = "darwinbox" -> DarwinboxMatches(u)
    [] p = "jazzhr" -> JazzHRMatches(u)
    [] p = "dreamjobs" -> DreamJobsMatches(u, body)
    [] p = "zoho_recruit" -> ZohoMatches(u, body)
    [] p = "greenhouse" -> GreenhouseMatches(u)

CanonicalUrl(p, u) ==
  CASE p = "lever" -> LeverRoot(u)
    [] p = "darwinbox" -> DarwinboxRoot(u)
    [] p = "jazzhr" -> JazzHRRoot(u)
    [] p = "dreamjobs" -> DreamJobsRoot(u)
    [] p = "zoho_recruit" -> ZohoRoot(u)
    [] p = "greenhouse" -> FirstPathRoot(u)

Selectable == {"lever", "darwinbox", "jazzhr", "dreamjobs", "zoho_recruit"}
Catalog == Selectable \cup {"greenhouse"}

(* detect_page: the detectors see the page and the links that it has, all  *)
(* with the body of the page.                                              *)
Source(p, u) == [source |-> p, url |-> u]
DetectPage(page) ==
  {Source(d[1], CanonicalUrl(d[1], d[2])) :
     d \in {c \in Catalog \X ({page.url} \cup page.links) :
              Public(c[2]) /\ Matches(c[1], c[2], page.body)}}

(* canonicalize_source_candidate_url drops the number of a page, where the *)
(* path says that it is a listing.                                         *)
Says(u) == \E i \in DOMAIN u.path : Fold[u.path[i]] \in Marked
Unnumbered(u) ==
  LET n == Len(u.path) - 2
      base == [u EXCEPT !.path = SubSeq(@, 1, n)]
  IN  IF n > 0 /\ Fold[u.path[n + 1]] = "page" /\ Says(base) THEN base ELSE u

(* logical_source_identity, of a source with an adapter and of any other.  *)
AddressIdentity(p, u) == <<p, u>>                \* mutant: the address as it is
TenantIdentity(p, u) ==
  CASE p = "lever" -> <<p, PathTenant(LeverRoot(u))>>
    [] p = "darwinbox" -> <<p, DarwinboxTenant(DarwinboxRoot(u))>>
    [] p \in {"jazzhr", "dreamjobs", "zoho_recruit"} -> <<p, u.host>>
    [] OTHER -> <<p, Unnumbered(u)>>

-----------------------------------------------------------------------------
(* The adapters: which addresses they accept, and what they read there.    *)

Plain(u) == u.scheme = "https" /\ u.extra = "none"

(* The tenant of a Lever or Darwinbox address is unquoted; the identity    *)
(* that discovery compares keeps its escapes.                              *)
Decoded(u) == [u EXCEPT !.path = [i \in DOMAIN u.path |-> Decode[u.path[i]]]]
Literal(u) == u.extra # "default" /\ \A i \in DOMAIN u.path : Decode[u.path[i]] = u.path[i]
Company(u) == IF CareersV2(u) THEN u.path[3] ELSE "main"

LeverAccepts(u) ==
  Plain(u) /\ u.host = LeverHost /\ Len(u.path) = 1 /\ Decode[u.path[1]] \notin Unfit
DarwinboxAccepts(u) ==
  /\ u.extra = "none" /\ Under(u, "darwinbox.com")
  /\ Decoded(u).path = Careers \/ CareersV2(Decoded(u))
  /\ Company(Decoded(u)) \notin Unfit
JazzHRAccepts(u) ==
  /\ Plain(u) /\ Under(u, "applytojob.com") /\ Len(u.host.label) = 1
  /\ u.path \in {<<"apply">>, <<"apply", "jobs">>}
DreamJobsAccepts(u) == Plain(u) /\ u.path = <<"jobs">>
ZohoAccepts(u) ==
  /\ Plain(u) /\ Len(u.path) >= 2 /\ Fold[u.path[1]] = "jobs"
  /\ Decode[u.path[2]] = u.path[2] /\ u.path[2] \notin Unfit

Accepts(p, u) ==
  CASE p = "lever" -> LeverAccepts(u)
    [] p = "darwinbox" -> DarwinboxAccepts(u)
    [] p = "jazzhr" -> JazzHRAccepts(u)
    [] p = "dreamjobs" -> DreamJobsAccepts(u)
    [] p = "zoho_recruit" -> ZohoAccepts(u)
    [] p = "generic" -> TRUE

(* The listing that an adapter reads, as the address of its first page,    *)
(* whatever the adapter. Darwinbox asks for "main" when the route has no   *)
(* company; Lever reads the API of the tenant that its address has.        *)
Listing(p, u) ==
  LET at(scheme, path) == <<scheme, u.host, path, u.extra = "port">>
  IN  CASE p = "lever" -> at("https", <<Decode[u.path[1]]>>)
        [] p = "darwinbox" ->
             at(u.scheme, <<"ms", "candidatev2", Company(Decoded(u)), "careers">>)
        [] p = "jazzhr" -> at("https", <<"apply">>)
        [] p = "dreamjobs" -> at("https", <<"jobs">>)
        [] p = "zoho_recruit" -> at("https", <<"jobs", u.path[2]>>)
        [] p = "generic" -> at(u.scheme, Decoded(u).path)
=============================================================================
