------------------------------ MODULE FontExport ------------------------------
(***************************************************************************)
(* How the export of an artboard (dcExport of design-canvas.jsx) gathers   *)
(* the fonts of a page: the style sheets that scripts may read are walked, *)
(* the others are fetched and searched for fonts and for more imports.     *)
(* A sheet stands for the fonts it declares.                               *)
(***************************************************************************)
EXTENDS Integers, Sequences, FiniteSets

CONSTANTS
    Sheets,   \* the style sheets
    Webs      \* the documents: [linked, imports, readable]

ASSUME SheetsAssumption == IsFiniteSet(Sheets)
ASSUME WebsAssumption ==
    \A web \in Webs :
        /\ web.linked \subseteq Sheets /\ web.readable \subseteq Sheets
        /\ web.imports \in [Sheets -> SUBSET Sheets]

VARIABLES
    web,     \* the document
    fonts,   \* fontRules: the sheets whose fonts have been found
    scraped, \* seen: the sheets for which a fetch was begun
    pending, \* the promises not yet taken from the list, in order
    settled, \* the promises that are settled
    failed,  \* the sheets whose fetch failed
    stage    \* "start", "await" or "embed"

fontVars == <<web, fonts, scraped, pending, settled, failed, stage>>

FontInit ==
    /\ web \in Webs
    /\ fonts = {}
    /\ scraped = {}
    /\ pending = <<>>
    /\ settled = {}
    /\ failed = {}
    /\ stage = "start"

\* Does the set hold those sheets, and what its sheets of a kind import?
Closed(set, from, through) ==
    from \subseteq set /\ \A s \in set \cap through : web.imports[s] \subseteq set

\* The sheets reached from some by imports, as long as the ones on the way are of a kind:
\* the least such set.
Reached(from, through) ==
    {s \in Sheets : \A set \in SUBSET Sheets : Closed(set, from, through) => s \in set}

\* scrapeCss for each of some sheets, in any order: those that were not begun before.
Scrape(sheets) ==
    \E order \in [1 .. Cardinality(sheets \ scraped) -> sheets \ scraped] :
        /\ \A s \in sheets \ scraped : \E i \in DOMAIN order : order[i] = s
        /\ scraped' = scraped \cup sheets
        /\ pending' = pending \o order

\* walk: through the sheets that can be read, at once; those that cannot are fetched.
Walked == Reached(web.linked, web.readable)

WalkAll ==
    /\ stage = "start"
    /\ fonts' = Walked \cap web.readable
    /\ Scrape(Walked \ web.readable)
    /\ stage' = "await"
    /\ UNCHANGED <<web, settled, failed>>

\* A fetch that is answered: its fonts, and its imports, before its promise settles.
Fetched(s) ==
    /\ s \in scraped \ settled
    /\ fonts' = fonts \cup {s}
    /\ Scrape(web.imports[s])
    /\ settled' = settled \cup {s}
    /\ UNCHANGED <<web, failed, stage>>

FetchFails(s) ==
    /\ s \in scraped \ settled
    /\ settled' = settled \cup {s}
    /\ failed' = failed \cup {s}
    /\ UNCHANGED <<web, fonts, scraped, pending, stage>>

\* Mutant: only the promises that there are at the beginning are awaited, like by
\* Promise.all.
AwaitFirst ==
    /\ stage = "await"
    /\ pending # <<>>
    /\ Head(pending) \in settled
    /\ pending' = <<>>
    /\ UNCHANGED <<web, fonts, scraped, settled, failed, stage>>

\* while (pending.length) await pending.shift()
Await ==
    /\ stage = "await"
    /\ pending # <<>>
    /\ Head(pending) \in settled
    /\ pending' = Tail(pending)
    /\ UNCHANGED <<web, fonts, scraped, settled, failed, stage>>

Embed ==
    /\ stage = "await"
    /\ pending = <<>>
    /\ stage' = "embed"
    /\ UNCHANGED <<web, fonts, scraped, pending, settled, failed>>

FontNext ==
    \/ WalkAll
    \/ \E s \in Sheets : Fetched(s) \/ FetchFails(s)
    \/ Await
    \/ Embed

----------------------------------------------------------------------------
(***************************************************************************)
(* Properties.                                                             *)
(***************************************************************************)

FontTypeOK ==
    /\ web \in Webs
    /\ fonts \cup scraped \cup settled \cup failed \subseteq Sheets
    /\ pending \in Seq(Sheets)
    /\ stage \in {"start", "await", "embed"}

\* When the fonts are embedded, those of every sheet are there that imports lead to, past
\* sheets whose fetch failed, and none is still being fetched: in whatever order answers
\* come, however late an import is found, and with imports in a circle.
FontsComplete ==
    LET got == Sheets \ (failed \ (Walked \cap web.readable))
    IN  stage = "embed" => scraped = settled /\ fonts = Reached(web.linked, got) \cap got
=============================================================================
