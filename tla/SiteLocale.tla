----------------------------- MODULE SiteLocale -----------------------------
(***************************************************************************)
(* The language of the site's pages, as one browser tab sees it: the       *)
(* portal (web/locale.js, web/app.js), the API explorer (/docs and         *)
(* web/docs-locale.js), the realtime studio (i18n.tsx) and the TTS clone   *)
(* page (ttsClone/i18n.tsx and App.tsx).  Four implementations resolve the *)
(* language from the URL and from localStorage, and each writes its links, *)
(* its URL and the stored choice itself.  The recorder page /codex and the *)
(* avatar page have no language and link to the portal without one.        *)
(***************************************************************************)
EXTENDS Naturals

CONSTANTS
  Locale,      \* SUPPORTED_LOCALES
  English,     \* DEFAULT_LOCALE
  Unsupported, \* any other value of the lang parameter
  NoLocale     \* no parameter, nothing stored, a page without a language

ASSUME LocaleAssumption ==
  /\ English \in Locale
  /\ Unsupported \notin Locale /\ NoLocale \notin Locale
  /\ Unsupported # NoLocale

VARIABLES
  page,        \* the page the tab shows
  query,       \* the lang parameter of its URL
  stored,      \* localStorage["agent-speak-locale"]
  storable,    \* localStorage may be used
  locale,      \* the language the page is shown in
  status,      \* statusState of the portal's system status
  chosen       \* the reader's last stored choice, unless /docs replaced it:
               \* a history variable, which no step reads

localeVars == <<page, query, stored, storable, locale, status, chosen>>

Localized == {"portal", "docs", "asr", "tts"}
Page == Localized \cup {"codex", "avatar"}
NoPage == "none"   \* the tab is empty, or shows another site
Query == Locale \cup {Unsupported, NoLocale}

Supported(l, otherwise) == IF l \in Locale THEN l ELSE otherwise

(* resolveLocale of web/locale.js and of i18n.tsx: a parameter decides,    *)
(* even an unsupported one; else the stored choice.                        *)
ResolveLocale(q, s) ==
  IF q # NoLocale THEN Supported(q, English) ELSE Supported(s, English)

(* resolveLocale of ttsClone/i18n.tsx: the first supported candidate. *)
ResolveCloneLocale(q, s) == Supported(q, Supported(s, English))

(* The server renders /docs in the language of its parameter only. *)
ResolveDocsLocale(q) == Supported(q, English)

StoredLocale == IF storable THEN stored ELSE NoLocale

Resolve(p, q, s) ==
  CASE p \in {"portal", "asr"} -> ResolveLocale(q, s)
    [] p = "tts"               -> ResolveCloneLocale(q, s)
    [] p = "docs"              -> ResolveDocsLocale(q)
    [] OTHER                   -> NoLocale

Store(l) == stored' = IF storable THEN l ELSE stored

(* Mutant: every page stores the language it is shown in. *)
LoadStoring(p, q) ==
  /\ page' = p /\ query' = q
  /\ locale' = IF p = "tts" /\ ~storable THEN NoLocale ELSE Resolve(p, q, StoredLocale)
  /\ IF locale' # NoLocale THEN Store(locale') ELSE UNCHANGED stored
  /\ chosen' = IF p = "docs" /\ locale' # chosen THEN NoLocale ELSE chosen
  /\ status' = "loading"
  /\ UNCHANGED storable

(* A page loads.  The script of /docs stores the language it is shown in,  *)
(* whatever the reader chose before.  The clone page reads localStorage    *)
(* without a guard: where storage is blocked it does not render.           *)
Load(p, q) ==
  /\ page' = p /\ query' = q
  /\ locale' = IF p = "tts" /\ ~storable THEN NoLocale ELSE Resolve(p, q, StoredLocale)
  /\ IF p = "docs" THEN Store(locale') ELSE UNCHANGED stored
  /\ chosen' = IF p = "docs" /\ locale' # chosen THEN NoLocale ELSE chosen
  /\ status' = "loading"
  /\ UNCHANGED storable

LocaleInit ==
  /\ page = NoPage /\ query = NoLocale
  /\ stored = NoLocale /\ storable \in BOOLEAN
  /\ locale = NoLocale
  /\ status = "loading" /\ chosen = NoLocale

(* An address is typed, bookmarked or followed from another site; the      *)
(* pages without a language ignore the parameter.  Loading a page again is *)
(* leaving it and opening it.                                              *)
Open(p, q) ==
  /\ page = NoPage
  /\ p \in Localized \/ q = NoLocale
  /\ Load(p, q)

LeavePage ==
  /\ page # NoPage
  /\ page' = NoPage /\ query' = NoLocale /\ locale' = NoLocale /\ status' = "loading"
  /\ UNCHANGED <<stored, storable, chosen>>

(* The links of a page: withLocale on the portal, href in the studio, and  *)
(* the language in the links of /docs and of the clone page.               *)
Links(p) ==
  CASE p = "portal" -> Localized
    [] p \in {"codex", NoPage} -> {}
    [] OTHER        -> {"portal"}

LinkQuery(p) == IF p \in Localized THEN locale ELSE NoLocale

FollowLink(p) ==
  /\ p \in Links(page)
  /\ page \in Localized => locale # NoLocale
  /\ Load(p, LinkQuery(page))

(* The language selector.  /docs loads itself again; the others replace    *)
(* the URL and stay.                                                       *)
Choose(l) ==
  /\ page \in Localized /\ locale # NoLocale
  /\ Store(l)
  /\ locale' = l
  /\ chosen' = IF storable THEN l ELSE chosen
  /\ query' = l
  /\ status' = IF page = "docs" THEN "loading" ELSE status
  /\ UNCHANGED <<page, storable>>

(* loadSystemStatus of the portal: health and capabilities answered, or    *)
(* not.                                                                    *)
LoadSystemStatus(answered) ==
  /\ page = "portal" /\ status = "loading"
  /\ status' = IF answered THEN "ready" ELSE "unavailable"
  /\ UNCHANGED <<page, query, stored, storable, locale, chosen>>

-----------------------------------------------------------------------------

LocaleTypeOK ==
  /\ page \in Page \cup {NoPage}
  /\ query \in Query
  /\ stored \in Locale \cup {NoLocale} /\ storable \in BOOLEAN
  /\ {locale, chosen} \subseteq Locale \cup {NoLocale}
  /\ status \in {"loading", "ready", "unavailable"}

(* A language the reader chose outlives what he opens afterwards: pages    *)
(* shared with him in another language, links from one page to the next,   *)
(* an address with an unsupported one.  The portal, the studio and the     *)
(* clone page, opened without a parameter, show it again, each by its own  *)
(* resolver.  Only /docs in another language ends it: its script stores    *)
(* the language the server chose from the URL alone (docs-locale.js:4-7).  *)
ChoiceKept ==
  /\ chosen # NoLocale
  /\ page \in {"portal", "asr", "tts"} /\ query = NoLocale /\ locale # NoLocale
  => locale = chosen

(* In no run.  What the design of the multilingual pages says of /docs,    *)
(* that it "reads the same locale contract" (parameter, stored choice,     *)
(* English): it does not.                                                  *)
DocsReadsContract ==
  [][page' = "docs" /\ page # "docs" =>
       locale' = ResolveLocale(query', StoredLocale)]_localeVars
=============================================================================
