--------------------------- MODULE ProductIntelligence ---------------------------
(* What is known of the product of a campaign, from its image and from its page:  *)
(* one profile for each image, which every campaign of the organization reuses,     *)
(* and one snapshot for the urls that name one page (ai/product-intelligence).  What *)
(* is told apart is the brand; the name is treated alike, and the category, which no *)
(* page gives, has one source.                                                     *)
EXTENDS Requests

CONSTANTS
  Images,
  Pages,        \* the urls that are given with the images
  NormalUrl,    \* normalizeUrl: each of them without its fragment, and without utm_*, ref...
  Contents,     \* the contents that a page may have, in the order in which it has them
  PageBrand,    \* the brand that the page itself declares, or Unnamed
  Rich,         \* the contents in which two facts are found without a model
  Brands,
  Readings,     \* what may be seen on an image: a brand, or Unnamed, and how sure that is
  Unnamed,
  NoPage

ASSUME ProductAssumption ==
  /\ NoPage \notin Pages
  /\ NormalUrl \in [Pages -> {NormalUrl[page] : page \in Pages}]
  /\ Contents \in Seq({Contents[n] : n \in DOMAIN Contents})
  /\ PageBrand \in [{Contents[n] : n \in DOMAIN Contents} -> Brands \cup {Unnamed}]
  /\ \A reading \in Readings : reading.brand \in Brands \cup {Unnamed} /\ reading.confidence \in 0..100

VARIABLES
  site,       \* which of the contents each url leads to
  snapshots,  \* the snapshot of each normal url
  profiles,   \* the row of each image
  held,       \* what each request has in hand
  bought,     \* the calls of models that each request has paid (history)
  handed      \* the profile that each request was given (history)

productVars == <<site, snapshots, profiles, held, bought, handed>>

Unread == [brand |-> Unnamed, confidence |-> 0]
\* A page that cannot be had gives no facts.  of and content say where they were found
\* (history).
NoFacts == [brand |-> Unnamed, claims |-> {}, of |-> NoPage, content |-> 0]
NoSnapshot == [content |-> 0, facts |-> NoFacts, fresh |-> FALSE]
\* brand is the column that the prompts are grounded on; fact is what the fusion has made
\* of the two, beside the conflict that it could not resolve.
NoProfile == [known |-> FALSE, url |-> NoPage, vision |-> Unread, facts |-> NoFacts,
              brand |-> Unnamed, fact |-> Unnamed, unresolved |-> FALSE]
NothingHeld == [vision |-> Unread, facts |-> NoFacts, content |-> 0, snapshot |-> NoSnapshot,
                cached |-> FALSE]

NormalUrls == {NormalUrl[page] : page \in Pages}
\* The urls whose snapshot is that of this one.
Alike(url) == {page \in Pages : url # NoPage /\ NormalUrl[page] = NormalUrl[url]}

ProductInit ==
  /\ site = [page \in Pages |-> 1]
  /\ snapshots = [url \in NormalUrls |-> NoSnapshot]
  /\ profiles = [image \in Images |-> NoProfile]
  /\ held = [r \in Requests |-> NothingHeld]
  /\ bought = [r \in Requests |-> {}]
  /\ handed = [r \in Requests |-> NoProfile]

Hand(r, row) == handed' = [handed EXCEPT ![r] = row]
\* What is given to a model.
Image(r) == [of |-> req[r].user, content |-> 0]
Buys(r, what) == bought' = [bought EXCEPT ![r] = @ \cup {what}]

-----------------------------------------------------------------------------
(* The image.                                                              *)

\* Mutant: the row of the image is reused whatever the page.
CachedForImage(image, page) == profiles[image].known
Cached(image, page) == profiles[image].known /\ profiles[image].url = page

\* buildProfile.
BuildProfile(r) ==
  /\ Arrives(r, "product")
  /\ \E image \in Images, page \in Pages \cup {NoPage} :
       LET row == profiles[image]
           request == [NewRequest EXCEPT !.op = "profile", !.account = page, !.user = image]
       IN
       IF Cached(image, page)
       THEN Call(r, [request EXCEPT !.pc = "done"]) /\ Hand(r, row) /\ UNCHANGED held
       ELSE /\ Call(r, [request EXCEPT !.pc = IF row.known THEN "snapshot" ELSE "vision"])
            /\ held' = [held EXCEPT ![r].vision = row.vision, ![r].cached = row.known]
            /\ UNCHANGED handed
  /\ UNCHANGED <<site, snapshots, profiles, bought>>

\* analyze: an answer that is no JSON is kept as if nothing could be seen.
AnalyzeImage(r) ==
  /\ Doing(r, "profile", "vision")
  /\ \E reading \in Readings \cup {Unread} : held' = [held EXCEPT ![r].vision = reading]
  /\ Buys(r, Image(r))
  /\ Goto(r, "identify")
  /\ UNCHANGED <<site, snapshots, profiles, handed>>

\* identify; what it finds goes into the row beside the rest.
Identify(r) ==
  /\ Doing(r, "profile", "identify")
  /\ Goto(r, "snapshot")
  /\ UNCHANGED productVars

\* A call of a model or a query throws, or the page redirects to where it may not.
ProfileFails(r) ==
  /\ req[r].op = "profile" /\ req[r].pc \notin Over
  /\ Goto(r, "refused")
  /\ held' = [held EXCEPT ![r] = NothingHeld]
  /\ UNCHANGED <<site, snapshots, profiles, bought, handed>>

-----------------------------------------------------------------------------
(* The page.                                                               *)

\* buildUrlFacts: the snapshot, while it is fresh, stands for the page.
LookUpSnapshot(r) ==
  /\ Doing(r, "profile", "snapshot")
  /\ IF req[r].account = NoPage THEN Goto(r, "fuse") /\ UNCHANGED held
     ELSE LET snapshot == snapshots[NormalUrl[req[r].account]] IN
          /\ held' = [held EXCEPT ![r].snapshot = snapshot,
                        ![r].facts = IF snapshot.fresh THEN snapshot.facts ELSE NoFacts]
          /\ Goto(r, IF snapshot.fresh THEN "fuse" ELSE "fetch")
  /\ UNCHANGED <<site, snapshots, profiles, bought, handed>>

\* extractProductPageFacts.
Extracted(page, n) ==
  LET brand == PageBrand[Contents[n]] IN
  [brand |-> brand, claims |-> {brand} \ {Unnamed}, of |-> page, content |-> n]

\* The url itself is fetched, as it was given.  A page that redirects too often, is no HTML,
\* is too long or does not answer gives nothing; else the content of the snapshot needs no
\* new extraction, whichever url had it, and few facts need a model.
FetchPage(r) ==
  /\ Doing(r, "profile", "fetch")
  /\ LET page == req[r].account  n == site[page] IN
     \/ Goto(r, "fuse") /\ UNCHANGED held
     \/ IF n = held[r].snapshot.content
        THEN Goto(r, "renew") /\ held' = [held EXCEPT ![r].facts = held[r].snapshot.facts]
        ELSE /\ held' = [held EXCEPT ![r].facts = Extracted(page, n), ![r].content = n]
             /\ Goto(r, IF Contents[n] \in Rich THEN "save" ELSE "extract")
  /\ UNCHANGED <<site, snapshots, profiles, bought, handed>>

\* mergeExtraction: what the page declares goes first, but the claims are all kept.
Merged(facts, brand) ==
  [facts EXCEPT !.brand = IF @ = Unnamed THEN brand ELSE @,
                !.claims = @ \cup ({brand} \ {Unnamed})]

\* extract: the model is asked twice at most, and what it cannot give is left out.
ExtractFacts(r) ==
  /\ Doing(r, "profile", "extract")
  /\ Buys(r, [of |-> req[r].account, content |-> held[r].content])
  /\ \/ \E brand \in Brands \cup {Unnamed} :
          /\ held' = [held EXCEPT ![r].facts = Merged(@, brand)]
          /\ Becomes(r, [req[r] EXCEPT !.pc = "save", !.level = 0])
     \/ /\ Becomes(r, [req[r] EXCEPT !.pc = IF req[r].level = 0 THEN "extract" ELSE "save",
                                     !.level = 1 - @])
        /\ UNCHANGED held
  /\ UNCHANGED <<site, snapshots, profiles, handed>>

\* Mutant: the hash of the content is not kept.
StoreWithoutHash(r) ==
  /\ Doing(r, "profile", "save")
  /\ snapshots' = [snapshots EXCEPT ![NormalUrl[req[r].account]] =
                     [content |-> 0, facts |-> held[r].facts, fresh |-> TRUE]]
  /\ Goto(r, "fuse")
  /\ UNCHANGED <<site, profiles, held, bought, handed>>
StoreSnapshot(r) ==
  /\ Doing(r, "profile", "save")
  /\ snapshots' = [snapshots EXCEPT ![NormalUrl[req[r].account]] =
                     [content |-> held[r].content, facts |-> held[r].facts, fresh |-> TRUE]]
  /\ Goto(r, "fuse")
  /\ UNCHANGED <<site, profiles, held, bought, handed>>

\* The row lives on, whatever content it has by now.
RenewSnapshot(r) ==
  /\ Doing(r, "profile", "renew")
  /\ snapshots' = [snapshots EXCEPT ![NormalUrl[req[r].account]].fresh = TRUE]
  /\ Goto(r, "fuse")
  /\ UNCHANGED <<site, profiles, held, bought, handed>>

\* SNAPSHOT_TTL_MS is over.
SnapshotExpires ==
  /\ \E url \in NormalUrls :
       snapshots[url].fresh /\ snapshots' = [snapshots EXCEPT ![url].fresh = FALSE]
  /\ UNCHANGED <<site, profiles, held, bought, handed, requestVars>>

\* The owner of a page changes what one of its urls leads to (external).
PageChanges ==
  /\ \E page \in Pages :
       site[page] < Len(Contents) /\ site' = [site EXCEPT ![page] = @ + 1]
  /\ UNCHANGED <<snapshots, profiles, held, bought, handed, requestVars>>

-----------------------------------------------------------------------------
(* Both.                                                                   *)

PAGE_CONFIDENCE == 90
TIE_CONFIDENCE_MARGIN == 10
Gap(reading) ==
  IF reading.confidence < PAGE_CONFIDENCE THEN PAGE_CONFIDENCE - reading.confidence
  ELSE reading.confidence - PAGE_CONFIDENCE

\* resolveAttribute: the page goes first, unless the image is about as sure of another.
Unresolved(reading, facts) ==
  /\ Unnamed \notin {reading.brand, facts.brand} /\ reading.brand # facts.brand
  /\ Gap(reading) < TIE_CONFIDENCE_MARGIN
\* Mutant: the page goes first.
PageFirst(reading, facts) == IF facts.brand = Unnamed THEN reading.brand ELSE facts.brand
Resolved(reading, facts) ==
  IF Unresolved(reading, facts) THEN Unnamed
  ELSE IF facts.brand = Unnamed THEN reading.brand ELSE facts.brand

\* The brand of the row is what was seen, whatever the fusion says.
Fused(r) ==
  LET reading == held[r].vision  facts == held[r].facts IN
  [known |-> TRUE, url |-> req[r].account, vision |-> reading, facts |-> facts,
   brand |-> reading.brand, fact |-> Resolved(reading, facts),
   unresolved |-> Unresolved(reading, facts)]

\* The row that was found is written over; else it is created, which throws if another
\* request has created it meanwhile.
WriteProfile(r) ==
  /\ Doing(r, "profile", "fuse")
  /\ IF held[r].cached \/ ~profiles[req[r].user].known
     THEN profiles' = [profiles EXCEPT ![req[r].user] = Fused(r)] /\ Hand(r, Fused(r)) /\ Goto(r, "done")
     ELSE UNCHANGED <<profiles, handed>> /\ Goto(r, "refused")
  /\ held' = [held EXCEPT ![r] = NothingHeld]
  /\ UNCHANGED <<site, snapshots, bought>>

ProductStep ==
  \/ \E r \in Requests :
       \/ BuildProfile(r) \/ AnalyzeImage(r) \/ Identify(r) \/ ProfileFails(r)
       \/ LookUpSnapshot(r) \/ FetchPage(r) \/ ExtractFacts(r) \/ StoreSnapshot(r)
       \/ RenewSnapshot(r) \/ WriteProfile(r)
  \/ SnapshotExpires \/ PageChanges

-----------------------------------------------------------------------------
\* What a model was paid for is not paid again, unless one of those that paid threw: the
\* image is looked at by one request (product-intelligence.service.ts:61), except where two
\* overlapped, and one content of a url is given to a model by one, except where one of
\* them overlapped with a request for the page, which may have written what it had read
\* before (product-intelligence.service.ts:180), or where the snapshot was also that of
\* another url, which may lead to something else (:219-231).
AnalysesAreReused ==
  \A r, s \in Requests : \A what \in bought[r] \cap bought[s] :
    r # s /\ "refused" \notin {req[r].pc, req[s].pc}
    => IF what.content = 0 THEN Met(r, s)
       ELSE \E q \in Requests :
              /\ req[q].account \in Alike(what.of)
              /\ Met(q, r) \/ Met(q, s) \/ req[q].account # what.of

\* What a campaign is told of its product is of its own image and of a url that is its own
\* once normal, whatever page another campaign gives with the same image.  A brand that the
\* fusion keeps as a fact was found in one of the two, and not contradicted by the other
\* that is as sure (product-intelligence-fusion.service.ts:108-134).  But the brand that is
\* told as the truth is the one that was seen (product-intelligence.service.ts:73,
\* product-grounding.ts:12): where the page names another, the prompt has it listed as a
\* contradiction, or the fact of the row is the brand of the page and no prompt says so.
ProfilesAreGrounded ==
  \A r \in Requests :
    handed[r].known =>
      LET row == handed[r]
          page == IF row.facts.of = NoPage THEN {} ELSE {row.facts.brand} \cup row.facts.claims
      IN
      /\ row.url = req[r].account
      /\ row.facts.of \in Alike(row.url) \cup {NoPage}
      /\ row.fact # Unnamed =>
           /\ row.fact \in {row.vision.brand} \cup page
           /\ \A other \in {row.vision.brand, row.facts.brand} \ {row.fact, Unnamed} :
                Gap(row.vision) >= TIE_CONFIDENCE_MARGIN
      /\ row.brand # Unnamed =>
           /\ row.brand = row.vision.brand
           /\ row.facts.brand \notin {Unnamed, row.brand} =>
                row.unresolved \/ row.fact = row.facts.brand
================================================================================
