----------------------------- MODULE WebGather -----------------------------
(***************************************************************************)
(* How the research pipeline reaches the web (api/local_ai_routes_simple): *)
(* search_web asks four engines at once and merges what they return,       *)
(* scrape_multiple_urls fetches the pages under a semaphore, each with its *)
(* own retries, and translate_scraped_content rewrites the foreign ones.   *)
(*                                                                         *)
(* The engines and the pages are outside the program: an engine answers    *)
(* any short list of pages or none (a refusal, an error and a timeout all  *)
(* become the empty list), a page answers any outcome scrape_url tells     *)
(* apart.                                                                  *)
(***************************************************************************)
EXTENDS Naturals, Sequences, FiniteSets, SequencesExt

CONSTANTS
    Pages,              \* URLs the engines know
    Authoritative,      \* those with an API of their own (Wikipedia, arXiv)
    SlugPage,           \* the Wikipedia address made from the query itself
    max_results,
    max_concurrent,
    scrape_attempts,    \* parameter attempts of scrape_url
    EngineMax           \* bound on the length of an engine's answer

ASSUME GatherAssumption ==
    /\ Authoritative \subseteq Pages
    /\ SlugPage \in Authoritative
    /\ {max_results, max_concurrent, scrape_attempts, EngineMax} \subseteq Nat \ {0}

VARIABLES
    gstep,      \* where the gathering is
    batches,    \* what the engines returned to the current search
    hits,       \* the merged results
    fetch,      \* fetch[u]: where scrape_url(u) is
    tries,      \* tries[u]: generic requests sent for u
    texts       \* the items that go through translate_scraped_content

gatherVars == <<gstep, batches, hits, fetch, tries, texts>>

Engines == {"ddg_html", "ddg_lite", "searxng", "wikipedia"}

Languages == {"target", "en", "unknown", "foreign"}

FetchStep == {"none", "waiting", "api", "get", "content", "given_up",
              "skipped"}

Silent == [e \in Engines |-> <<>>]

GatherTypeOK ==
    /\ gstep \in {"search", "merge", "scrape", "translate", "end"}
    /\ batches \in [Engines -> BoundedSeq(Pages, EngineMax)]
    /\ hits \in BoundedSeq(Pages, max_results)
    /\ fetch \in [Pages -> FetchStep]
    /\ tries \in [Pages -> 0..scrape_attempts]
    /\ \A i \in DOMAIN texts : texts[i] \in [url : Pages, lang : Languages \cup {"?"},
                                             translated : BOOLEAN]

GatherInit ==
    /\ gstep = "search"
    /\ batches = Silent
    /\ hits = <<>>
    /\ fetch = [u \in Pages |-> "none"]
    /\ tries = [u \in Pages |-> 0]
    /\ texts = <<>>

-----------------------------------------------------------------------------
(* search_web *)

\* What one engine may return: no more than the limit it was given, and, from
\* the search API of Wikipedia, only its own pages.
Answers(e) ==
    IF e = "wikipedia" THEN BoundedSeq(Authoritative, EngineMax)
    ELSE BoundedSeq(Pages, EngineMax)

EnginesAnswer ==
    /\ gstep = "search"
    /\ \E html \in Answers("ddg_html"), lite \in Answers("ddg_lite"),
          searx \in Answers("searxng"), wiki \in Answers("wikipedia") :
          batches' = [Silent EXCEPT !["ddg_html"] = html, !["ddg_lite"] = lite,
                                    !["searxng"] = searx, !["wikipedia"] = wiki]
    /\ gstep' = "merge"
    /\ UNCHANGED <<hits, fetch, tries, texts>>

AddUnseen(merged, u) == IF Contains(merged, u) THEN merged ELSE Append(merged, u)

\* The loop over one engine's list stops once it added the page that fills up.
AddBatch(merged, batch) ==
    FoldLeft(LAMBDA acc, u : IF Len(acc) >= max_results /\ acc # merged THEN acc
                             ELSE AddUnseen(acc, u), merged, batch)

\* The loop over the engines stops after the one that left enough.
AddBatches(merged, rest) ==
    FoldLeft(LAMBDA acc, batch : IF Len(acc) >= max_results THEN acc
                                 ELSE AddBatch(acc, batch),
             AddBatch(merged, Head(rest)), Tail(rest))

FirstOf(s, n) == SubSeq(s, 1, IF Len(s) < n THEN Len(s) ELSE n)

\* Faulty variant: the engines come first and Wikipedia fills what is left.
SearchWebNoReserve(b) ==
    LET merged == AddBatches(<<>>, <<b["ddg_html"], b["ddg_lite"], b["searxng"],
                                     b["wikipedia"]>>)
    IN  IF merged = <<>> THEN <<SlugPage>> ELSE FirstOf(merged, max_results)

\* The first two pages of Wikipedia have a reserved place; with nothing from
\* anybody the query's own Wikipedia address is tried.
SearchWeb(b) ==
    LET reserved == FoldLeft(AddUnseen, <<>>, FirstOf(b["wikipedia"], 2))
        merged == AddBatches(reserved, <<b["ddg_html"], b["ddg_lite"], b["searxng"]>>)
    IN  IF merged = <<>> THEN <<SlugPage>> ELSE FirstOf(merged, max_results)

\* The pages found are handed to scrape_multiple_urls, which starts a coroutine
\* for each of them.
MergePages ==
    /\ gstep = "merge"
    /\ hits' = SearchWeb(batches)
    /\ batches' = Silent
    /\ fetch' = [u \in Pages |-> IF u \in ToSet(hits') THEN "waiting" ELSE "none"]
    /\ gstep' = "scrape"
    /\ UNCHANGED <<tries, texts>>

-----------------------------------------------------------------------------
(* scrape_url under the semaphore of scrape_multiple_urls *)

Fetching == {u \in Pages : fetch[u] \in {"api", "get"}}

Fetch(u, step) == fetch' = [fetch EXCEPT ![u] = step]

\* scrape_url begins; an address that is not http or looks like a search is
\* skipped without a request.
AcquireSlot(u) ==
    /\ gstep = "scrape"
    /\ fetch[u] = "waiting"
    /\ Cardinality(Fetching) < max_concurrent
    /\ \/ u \in Authoritative /\ Fetch(u, "api")
       \/ u \notin Authoritative /\ \E step \in {"get", "skipped"} : Fetch(u, step)
    /\ UNCHANGED <<gstep, batches, hits, tries, texts>>

\* _fetch_wikipedia_plain or _fetch_arxiv_abstract; without a usable text the
\* page is fetched like any other.
ApiAnswers(u) ==
    /\ fetch[u] = "api"
    /\ \E step \in {"content", "get"} : Fetch(u, step)
    /\ UNCHANGED <<gstep, batches, hits, tries, texts>>

\* One round of the retry loop: a text of 120 characters is the result; a status
\* other than 200 and the blocked ones ends it; a blocked or failed request and
\* a page with too little text use up an attempt.
GetAnswers(u) ==
    /\ fetch[u] = "get"
    /\ tries' = [tries EXCEPT ![u] = @ + 1]
    /\ \E outcome \in {"page", "short", "blocked", "other"} :
          Fetch(u, CASE outcome = "page" -> "content"
                     [] outcome = "other" -> "given_up"
                     [] OTHER -> IF tries'[u] < scrape_attempts THEN "get" ELSE "given_up")
    /\ UNCHANGED <<gstep, batches, hits, texts>>

\* gather returned: the pages with content, in the order of the hits.
Collect ==
    /\ gstep = "scrape"
    /\ \A i \in DOMAIN hits : fetch[hits[i]] \in {"content", "given_up", "skipped"}
    /\ texts' = LET kept == SelectSeq(hits, LAMBDA u : fetch[u] = "content")
                IN  [i \in DOMAIN kept |-> [url |-> kept[i], lang |-> "?",
                                            translated |-> FALSE]]
    /\ gstep' = "translate"
    /\ UNCHANGED <<batches, hits, fetch, tries>>

-----------------------------------------------------------------------------
(* translate_scraped_content *)

Untranslated == {i \in DOMAIN texts : texts[i].lang = "?"}

\* detect_language decides, from the service or from the characters; a failed
\* translate_text leaves the original text.
TranslateNext ==
    /\ gstep = "translate"
    /\ Untranslated # {}
    /\ LET i == CHOOSE i \in Untranslated : \A j \in Untranslated : i <= j IN
       \E lang \in Languages, success \in BOOLEAN :
          texts' = [texts EXCEPT ![i].lang = lang,
                                 ![i].translated = (lang = "foreign" /\ success)]
    /\ UNCHANGED <<gstep, batches, hits, fetch, tries>>

TranslationDone ==
    /\ gstep = "translate"
    /\ Untranslated = {}
    /\ gstep' = "end"
    /\ UNCHANGED <<batches, hits, fetch, tries, texts>>

ScrapePage(u) == AcquireSlot(u) \/ ApiAnswers(u) \/ GetAnswers(u)

GatherNext ==
    \/ EnginesAnswer \/ MergePages \/ Collect \/ TranslateNext \/ TranslationDone
    \/ \E u \in Pages : ScrapePage(u)

GatherSpec == GatherInit /\ [][GatherNext]_gatherVars

-----------------------------------------------------------------------------
(* Properties *)

\* Every place in an engine's list, earlier engines first and Wikipedia's two
\* reserved pages before all.
Ranked(b) == FlattenSeq(<<FirstOf(b["wikipedia"], 2), b["ddg_html"], b["ddg_lite"],
                          b["searxng"]>>)

\* search_web promises "up to max_results deduplicated results" that "always
\* include Wikipedia top hits when found": its nested loops return the first
\* distinct pages of the ranked lists, and never nothing.
SearchMerged ==
    gstep = "merge" =>
        LET ranked == Ranked(batches)
            firsts == SelectSeq([i \in DOMAIN ranked |-> i],
                                LAMBDA i : \A j \in 1..(i - 1) : ranked[j] # ranked[i])
            distinct == [k \in DOMAIN firsts |-> ranked[firsts[k]]]
        IN  SearchWeb(batches) = IF ranked = <<>> THEN <<SlugPage>>
                                 ELSE FirstOf(distinct, max_results)

\* The requests in flight stay within the semaphore and no page is asked more
\* often than scrape_url's attempts, whatever the pages answer; a page that was
\* given up after short or blocked answers has used all of them or was refused.
ScrapeBounded ==
    /\ Cardinality(Fetching) <= max_concurrent
    /\ \A u \in Pages : tries[u] <= scrape_attempts
    /\ \A u \in Pages : fetch[u] = "given_up" => tries[u] > 0

\* A page that was fetched reaches the analysis: neither a failed detection nor
\* a failed translation loses or reorders an item.
ContentKept ==
    gstep \in {"translate", "end"} =>
        [i \in DOMAIN texts |-> texts[i].url] =
            SelectSeq(hits, LAMBDA u : fetch[u] = "content")

\* The three together: what search, scraping and translation hand on.
GatherSound == SearchMerged /\ ScrapeBounded /\ ContentKept

=============================================================================
