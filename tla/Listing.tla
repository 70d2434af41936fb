------------------------------ MODULE Listing ------------------------------
(***************************************************************************)
(* A walk over a listing: Store.List (store.go) and the List of both       *)
(* providers (s3/objects.go, azureblob/objects.go) and of the Fake that    *)
(* stands in for them (storagetest/fake.go), called with the Next of each  *)
(* page until a page has none, while others write and delete objects.      *)
(*                                                                         *)
(* The services are external.  They list in the keys' order from where a   *)
(* token points, cut a page at a cap of their own or earlier, and refuse a *)
(* page size that is not positive.  Keys are numbers in their order, a     *)
(* prefix is the set of keys that have it, and a token is the key up to    *)
(* which the lister has looked, None for the empty one.  Times are in      *)
(* halves of a second.                                                     *)
(***************************************************************************)
EXTENDS NewClient, Sequences, FiniteSets

CONSTANTS
    Keys,      \* the keys, a set of positive numbers
    Prefixes,  \* the prefixes, sets of keys
    Limits,    \* the values of opts.Limit
    PageSizes, \* the values of Config.ListPageSize, 0 for none
    MaxInt32,  \* the largest int32
    Cap        \* the most objects a service puts on a page, and the Fake's
               \* page size

ASSUME KeysAssumption == Keys \subseteq Nat \ {0} /\ IsFiniteSet(Keys)
ASSUME PrefixesAssumption == Prefixes \subseteq SUBSET Keys
ASSUME LimitsAssumption == Limits \subseteq Int /\ PageSizes \subseteq Nat
ASSUME WidthAssumption == MaxInt32 \in Nat \ {0} /\ Cap \in Nat \ {0}

VARIABLES
    lister,       \* whose List is called: the provider's, or the Fake's
    objects,      \* the keys with an object
    prefix,       \* opts.Prefix
    limit,        \* opts.Limit
    listPageSize, \* Store.listPageSize
    token,        \* the Next of the latest page
    listed,       \* the pages with objects so far, each a set
    state,        \* of the walk
    stable        \* history: the keys whose object has stayed since it began

given    == <<lister, prefix, limit, listPageSize>>
walkVars == <<given, objects, token, listed, state, stable>>

None == 0

Objects == [key : Keys, etag : {"bare", "quoted"}, modifiedAt : Nat]

WalkTypeOK ==
    /\ lister \in {"none", "s3", "azureblob", "fake"}
    /\ objects \subseteq Keys /\ stable \subseteq objects
    /\ prefix \subseteq Keys /\ limit \in Int /\ listPageSize \in Nat
    /\ token \in Keys \cup {None}
    /\ listed \in Seq(SUBSET Objects)
    /\ state \in {"none", "walking", "done", "failed"}

WalkInit ==
    /\ lister = "none"
    /\ objects = {} /\ stable = {}
    /\ prefix = {} /\ limit = 0 /\ listPageSize = 0
    /\ token = None
    /\ listed = <<>>
    /\ state = "none"

-----------------------------------------------------------------------------
(* What the services send.                                                 *)

Left == {k \in objects \cap prefix : k > token}

\* The last key of a page, or of the pages before an empty one.
Last(page) ==
    IF page = {} THEN token ELSE CHOOSE k \in page : \A j \in page : j <= k

\* A page of at most n objects after the token, whether the listing goes on
\* after it, and the key up to which the service looked, which moves on with
\* every page.  A page on which the listing goes on may be empty, and Azure may
\* say that it goes on although nothing is left.
ServicePage(n, page, more, mark) ==
    /\ Cardinality(page) <= n /\ Cardinality(page) <= Cap
    /\ \/ ~more /\ page = Left /\ mark = Last(page)
       \/ /\ more /\ (page # Left \/ lister = "azureblob")
          /\ mark > token
          /\ \A k \in Left : k \in page <=> k <= mark

\* The Fake's pages are as full as they can be.
FakePage(n, page, more, mark) ==
    /\ Cardinality(page) = IF Cardinality(Left) > n THEN n ELSE Cardinality(Left)
    /\ \A k \in page, j \in Left \ page : k < j
    /\ more = (page # Left)
    /\ mark = Last(page)

\* The metadata of an object, in the headers of an answer and in a listing,
\* where S3's times have a fraction and its gateways and Azure leave the
\* quotes off an ETag.  The Fake keeps what it returned from Put.
HeaderOf(k) == [key |-> k, etag |-> "quoted",
                modifiedAt |-> IF lister = "fake" THEN k ELSE 2 * (k \div 2)]
ItemOf(k)   == [key |-> k, etag |-> IF lister = "fake" THEN "quoted" ELSE "bare",
                modifiedAt |-> IF lister = "azureblob" THEN 2 * (k \div 2) ELSE k]

-----------------------------------------------------------------------------
(* The providers.                                                          *)

entityTag(e) == IF e = "bare" THEN "quoted" ELSE e

Truncate(t) == 2 * (t \div 2)

S3Object(item) ==
    [item EXCEPT !.etag = entityTag(@), !.modifiedAt = Truncate(@)]

AzureObject(item) == [item EXCEPT !.etag = entityTag(@)]

Object(item) ==
    CASE lister = "s3" -> S3Object(item)
      [] lister = "azureblob" -> AzureObject(item)
      [] lister = "fake" -> item

\* Mutant: keeps the low bits of the limit.
PageLimitUnclamped(n) ==
    IF n > 0 THEN ((n + MaxInt32 + 1) % (2 * (MaxInt32 + 1))) - MaxInt32 - 1
             ELSE Cap

\* max-keys or maxresults: the limit clamped to its width, and the service's
\* own cap when none is sent.  The Fake sends nothing.
PageLimit(n) ==
    IF n > 0 THEN (IF n > MaxInt32 /\ lister # "fake" THEN MaxInt32 ELSE n)
             ELSE Cap

\* Mutant: takes the token although the listing is not truncated.
NextAlways(more, mark) == mark

\* Page.Next: the service's token, or the Fake's, while the listing goes on.
NextToken(more, mark) == IF more THEN mark ELSE None

-----------------------------------------------------------------------------

\* Store.List: a negative limit never reaches the provider, and none takes the
\* configured one.
Refused == limit < 0
StoreLimit == IF limit = 0 THEN listPageSize ELSE limit

\* A walk begins.
Walk ==
    /\ Use
    /\ lister' \in {provider, "fake"}
    /\ objects' \in SUBSET Keys /\ stable' = objects'
    /\ prefix' \in Prefixes /\ limit' \in Limits
    /\ listPageSize' \in PageSizes
    /\ state' = "walking"
    /\ UNCHANGED <<token, listed>>

ListFails ==
    /\ state = "walking"
    /\ Refused \/ PageLimit(StoreLimit) <= 0
    /\ state' = "failed"
    /\ UNCHANGED <<newVars, given, objects, token, listed, stable>>

List ==
    /\ state = "walking"
    /\ ~Refused /\ PageLimit(StoreLimit) > 0
    /\ \E page \in SUBSET Left, more \in BOOLEAN, mark \in Keys \cup {None} :
          /\ IF lister = "fake"
             THEN FakePage(PageLimit(StoreLimit), page, more, mark)
             ELSE ServicePage(PageLimit(StoreLimit), page, more, mark)
          /\ listed' = IF page = {} THEN listed
                       ELSE Append(listed, {Object(ItemOf(k)) : k \in page})
          /\ token' = NextToken(more, mark)
          /\ state' = IF token' = None THEN "done" ELSE "walking"
    /\ UNCHANGED <<newVars, given, objects, stable>>

Write ==
    /\ state = "walking"
    /\ \E k \in Keys \ objects : objects' = objects \cup {k}
    /\ UNCHANGED <<newVars, given, token, listed, state, stable>>

Delete ==
    /\ state = "walking"
    /\ \E k \in objects : objects' = objects \ {k} /\ stable' = stable \ {k}
    /\ UNCHANGED <<newVars, given, token, listed, state>>

WalkNext == Walk \/ List \/ ListFails \/ Write \/ Delete

-----------------------------------------------------------------------------
(* Properties.                                                             *)

\* A walk that ends has listed every object that stayed, and has the prefix,
\* as Stat reports it; it lists no key twice and none out of order, however
\* the service cuts the pages and whoever writes meanwhile; and only a negative
\* limit fails it, not one that is past the width of the request's field
\* (client.go:58-80, store.go:239-241, s3/objects.go:440-444, 475-477,
\* azureblob/objects.go:133-135).
WalkIsComplete ==
    /\ state = "failed" => limit < 0
    /\ \A i, j \in 1 .. Len(listed) :
          i < j => \A a \in listed[i], b \in listed[j] : a.key < b.key
    /\ \A i \in 1 .. Len(listed) :
          \A a \in listed[i] : a.key \in prefix /\ a = HeaderOf(a.key)
    /\ state = "done" =>
          \A k \in stable \cap prefix :
             \E i \in 1 .. Len(listed) : \E a \in listed[i] : a.key = k

\* A walk ends, though writers go on: every page moves past the one before it.
WalkEnds == (state = "walking") ~> (state # "walking")
=============================================================================
