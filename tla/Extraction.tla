----------------------------- MODULE Extraction -----------------------------
(***************************************************************************)
(* One extraction: the registry picks an extractor for the URL, pdf and    *)
(* web fetch the page once, and the extractor's fallback chain (module     *)
(* FallbackChain, driven here) asks its sources in order.  What an         *)
(* upstream or a parser answers is chosen freely; the text of a capture is *)
(* abstracted to which of its fields have any.                             *)
(***************************************************************************)
EXTENDS Integers, FallbackChain, Tweets

CONSTANT ZoneOffsets   \* minutes a PDF's CreationDate may be off UTC

ASSUME RetryAftersAssumption == RetryAfters \subseteq Int
ASSUME ChainLengthAssumption == MaxSources >= 3
ASSUME ZoneOffsetsAssumption == ZoneOffsets \subseteq Int

VARIABLES
  url,       \* the URL posted, as far as `supports` looks at it
  apiKey,    \* a YouTube Data API key is configured
  kind,      \* the extractor chosen
  creation,  \* the CreationDate in the PDF fetched
  capture,   \* the CaptureData returned
  status,    \* "extracted", or the HTTP error of the request
  header     \* Retry-After sent with it

vars == <<chainVars, url, apiKey, kind, creation, capture, status, header>>
request == <<url, apiKey>>

Kinds == {"x", "youtube", "pdf", "web"}

URLs ==
  {u \in [host : {"x", "youtube", "other"}, statusPath : BOOLEAN, id : BOOLEAN,
          pdfPath : BOOLEAN] :
     /\ u.host = "x" => (u.id => u.statusPath)
     /\ u.host = "youtube" => ~u.statusPath
     /\ u.host = "other" => ~u.statusPath /\ ~u.id}

\* body: the sections it has; payload: the tweet it was made from.
NoText == [title |-> FALSE, description |-> FALSE, body |-> {}, payload |-> NoTweet]

\* matches: it has the form of a PDF date; exists: its fields name a day and time.
CreationDates == [matches : BOOLEAN, exists : BOOLEAN, zone : ZoneOffsets]
NoDate == [matches |-> FALSE, exists |-> FALSE, zone |-> 0]

TypeOK ==
  /\ ChainTypeOK
  /\ url \in URLs
  /\ apiKey \in BOOLEAN
  /\ kind \in Kinds \cup {"none"}
  /\ creation \in CreationDates \cup {NoDate}
  /\ capture \in [title : BOOLEAN, description : BOOLEAN, body : SUBSET Sections,
                  payload : FxTweets]
  /\ status \in {"none", "extracted", "400", "500", "502"}
  /\ header \in Retries

Init ==
  /\ ChainInit
  /\ url \in URLs
  /\ apiKey \in BOOLEAN
  /\ kind = "none"
  /\ creation = NoDate
  /\ capture = NoText
  /\ status = "none"
  /\ header = NoRetry

-----------------------------------------------------------------------------
(***************************************************************************)
(* The registry.                                                           *)
(***************************************************************************)
XSupports(u) == u.host = "x" /\ u.statusPath
YouTubeSupports(u) == u.host = "youtube" /\ u.id
PdfSupports(u) == u.pdfPath
WebSupports(u) == TRUE   \* the request model admits http(s) URLs with a host

Supports(k, u) ==
  \/ k = "x" /\ XSupports(u)
  \/ k = "youtube" /\ YouTubeSupports(u)
  \/ k = "pdf" /\ PdfSupports(u)
  \/ k = "web" /\ WebSupports(u)

\* Mutated form: the catch-all is registered before the pdf extractor.
RegistryWebEarly == <<"x", "youtube", "web", "pdf">>

\* _build_default_registry, in order of registration.
Registry == <<"x", "youtube", "pdf", "web">>

\* The first registered extractor that supports the URL.
Find(u) ==
  Registry[CHOOSE i \in 1..Len(Registry) :
             /\ Supports(Registry[i], u)
             /\ \A j \in 1..i - 1 : ~Supports(Registry[j], u)]

-----------------------------------------------------------------------------
(***************************************************************************)
(* What a source may do: skip itself (FallbackFailed), return a capture,   *)
(* or raise something else, which create_capture answers with 500, or with *)
(* 400 when it is a ValueError.                                            *)
(***************************************************************************)
Skipped(retry) == [tag |-> "skip", retry |-> retry]
Parsed(c) == [tag |-> "result", capture |-> c]
Raised(code) == [tag |-> "exception", code |-> code]

\* A GET of a JSON API: an HTTP error status skips with its Retry-After, an
\* unreachable host or a body that is not JSON without one.
JsonApiFailures == {Skipped(retry) : retry \in Retries}

\* A JSON object without a tweet is parsed as an empty one; JSON that is no
\* object, or has no object or string where one is expected, raises.
FxCapture(t) ==
  [title |-> HasTitle(t), description |-> t.text # "none", body |-> FxBody(t), payload |-> t]

Fxtwitter ==
  JsonApiFailures \cup {Raised("500")} \cup {Parsed(FxCapture(t)) : t \in {t \in FxTweets : ~FxRaises(t)}}

VxCapture(t) ==
  [title |-> HasTitle(t), description |-> t.text # "none", body |-> VxBody(t), payload |-> t]

Vxtwitter ==
  JsonApiFailures \cup {Raised("500")} \cup {Parsed(VxCapture(t)) : t \in VxTweets}

\* The captures of the other extractors: a body is text.
PlainCaptures ==
  [title : BOOLEAN, description : BOOLEAN, body : {{}, {"text"}}, payload : {NoTweet}]

\* Mutated form: an empty article is kept as it is.
TrafilaturaAcceptingEmpty ==
  {Skipped(NoRetry), Raised("400"), Raised("500")} \cup {Parsed(c) : c \in PlainCaptures}

\* No title and no body is a skip; trafilatura's own exceptions propagate.
Trafilatura ==
  {Skipped(NoRetry), Raised("400"), Raised("500")} \cup
    {Parsed(c) : c \in {c \in PlainCaptures : c.title \/ c.body # {}}}

\* Same rule, without a description; readability's exceptions are skips, those
\* of markdownify are not.
Readability ==
  {Skipped(NoRetry), Raised("400"), Raised("500")} \cup
    {Parsed(c) : c \in {c \in PlainCaptures : ~c.description /\ (c.title \/ c.body # {})}}

\* Mutated form: a day that does not exist raises too.
PdfDateNoDay(d) ==
  IF ~d.matches THEN "none"
  ELSE IF d.zone >= 24 * 60 \/ d.zone <= -24 * 60 \/ ~d.exists THEN "ValueError" ELSE "date"

\* _parse_pdf_date: None, a date, or the ValueError of timezone(timedelta(...)),
\* which is built outside the try that guards the date.
PdfDate(d) ==
  IF ~d.matches THEN "none"
  ELSE IF d.zone >= 24 * 60 \/ d.zone <= -24 * 60 THEN "ValueError"
  ELSE IF d.exists THEN "date" ELSE "none"

\* A title comes from the metadata or the file name, and there may be none.
PdfTexts == {Parsed(c) : c \in {c \in PlainCaptures : ~c.description /\ c.body # {}}}

\* An exception of the parser or no text is a skip; the metadata is read from
\* the PDF again, and done without when that fails.
Markitdown ==
  {Skipped(NoRetry)} \cup PdfTexts \cup
    (IF PdfDate(creation) = "ValueError" THEN {Raised("400")} ELSE {})

\* The metadata is that of the PDF just parsed.
Pdfplumber ==
  {Skipped(NoRetry)} \cup
    (IF PdfDate(creation) = "ValueError" THEN {Raised("400")} ELSE PdfTexts)

\* Title falls back to the video id; transcript or description, or a skip.  A
\* subtitle URL httpx cannot parse raises InvalidURL, which is no HTTPError.
YtDlp ==
  {Skipped(NoRetry), Raised("500")} \cup
    {Parsed(c) : c \in {c \in PlainCaptures : c.title /\ c.body # {}}}

\* Transcript or an oEmbed title, or a skip; the title falls back to the id.
TranscriptApi ==
  {Skipped(NoRetry)} \cup
    {Parsed(c) : c \in {c \in PlainCaptures : c.title /\ ~c.description}}

\* Every failure is a skip without a Retry-After (the messages are redacted); a
\* snippet that is null raises AttributeError; the body is the description.
ApiV3 ==
  {Skipped(NoRetry), Raised("500")} \cup
    {Parsed(c) : c \in {c \in PlainCaptures : c.title /\ (c.body # {} => c.description)}}

Sources(k) ==
  IF k = "x" THEN <<Fxtwitter, Vxtwitter>>
  ELSE IF k = "pdf" THEN <<Markitdown, Pdfplumber>>
  ELSE IF k = "web" THEN <<Trafilatura, Readability>>
  ELSE <<YtDlp, TranscriptApi>> \o (IF apiKey THEN <<ApiV3>> ELSE << >>)

-----------------------------------------------------------------------------
(***************************************************************************)
(* The extraction, up to the status create_capture answers with.           *)
(***************************************************************************)
Dispatch ==
  /\ kind = "none"
  /\ kind' = Find(url)
  /\ IF kind' = "x" /\ ~url.id
       THEN status' = "400" /\ UNCHANGED chainVars   \* ValueError: no tweet id
       ELSE /\ IF kind' \in {"pdf", "web"} THEN UNCHANGED chainVars
               ELSE Call(Len(Sources(kind')))
            /\ UNCHANGED status
  /\ UNCHANGED <<request, creation, capture, header>>

Fetching == kind \in {"pdf", "web"} /\ state = "idle" /\ status = "none"

Fetch ==
  /\ Fetching
  /\ creation' \in IF kind = "pdf" THEN CreationDates \cup {NoDate} ELSE {NoDate}
  /\ Call(Len(Sources(kind)))
  /\ UNCHANGED <<request, kind, capture, status, header>>

\* Mutated form: a timeout of the fetch has a status of its own.
FetchFails504 ==
  /\ Fetching
  /\ status' = "504"
  /\ UNCHANGED <<chainVars, request, kind, creation, capture, header>>

\* HTTPError of the one fetch, or a pdf URL that does not serve a PDF; a URL that
\* httpx cannot parse raises InvalidURL, which is no HTTPError.
FetchFails ==
  /\ Fetching
  /\ status' \in {"500", "502"}
  /\ UNCHANGED <<chainVars, request, kind, creation, capture, header>>

\* What the source whose turn it is may do.
Replies == Sources(kind)[Len(failed) + 1]

\* FallbackFailed; after the last source ExtractorError, and a Retry-After
\* header when last_retry_after is truthy.
SourceSkips(retry) ==
  /\ state = "trying"
  /\ Skipped(retry) \in Replies
  /\ Skip(retry)
  /\ IF state' = "ExtractorError"
       THEN status' = "502" /\ header' = IF kept' = 0 THEN NoRetry ELSE kept'
       ELSE UNCHANGED <<status, header>>
  /\ UNCHANGED <<request, kind, creation, capture>>

SourceAnswers ==
  /\ state = "trying"
  /\ \E reply \in Replies :
       /\ reply.tag = "result"
       /\ capture' = reply.capture
  /\ Finish("result")
  /\ status' = "extracted"
  /\ UNCHANGED <<request, kind, creation, header>>

SourceRaises(code) ==
  /\ state = "trying"
  /\ Raised(code) \in Replies
  /\ Finish("exception")
  /\ status' = code
  /\ UNCHANGED <<request, kind, creation, capture, header>>

Next ==
  \/ Dispatch
  \/ Fetch
  \/ FetchFails
  \/ \E retry \in Retries : SourceSkips(retry)
  \/ SourceAnswers
  \/ \E code \in {"400", "500"} : SourceRaises(code)

Spec == Init /\ [][Next]_vars

\* youtube-transcript-api fetches over a session of its own, without a timeout.
Untimed == kind = "youtube" /\ state = "trying" /\ Len(failed) + 1 = 2

\* The fetches of the other sources have timeouts and the parsers terminate.
FairSpec == Spec /\ WF_vars(~Untimed /\ Next)

-----------------------------------------------------------------------------
\* _compose_embed_text: is there anything to embed?
EmbedText(c) == c.title \/ c.description \/ c.body # {}

\* What a tweet's payload says besides its text.
Said(t) ==
  {s \in Sections \ {"text"} :
     \/ s = "reply" /\ t.reply
     \/ s = "article" /\ (t.article.title = "given" \/ t.article.content)
     \/ s = "media" /\ t.media
     \/ s = "note" /\ t.note
     \/ s = "quote" /\ t.quote.text}

\* Nothing a tweet's payload says is lost on the way into a capture: its text
\* is the description, and in the body unless an article took its place, and all
\* else is in the body.  Nor does it matter which upstream answered: a tweet that
\* both can express gives the same capture.
TweetsAreKept ==
  kind = "x" /\ status = "extracted" =>
    LET t == capture.payload IN
    /\ Said(t) \subseteq capture.body
    /\ t.text # "none" => capture.description
    /\ t.text # "none" /\ t.article = NoArticle => "text" \in capture.body
    /\ t \in VxTweets /\ (t.quote # NoQuote => t.quote.text) => FxCapture(t) = VxCapture(t)

\* A capture always has text, which dedup then pins: the chain falls through
\* or fails rather than answer with an empty page, PDF or video.  Only a tweet
\* that says nothing gives a capture without any, and if its author is known
\* then only when an article with a blank title keeps it from being the title.
CapturesHaveText ==
  status = "extracted" /\ ~EmbedText(capture) =>
    /\ kind = "x"
    /\ Said(capture.payload) = {} /\ capture.payload.text = "none"
    /\ capture.payload.author => capture.payload.article.title = "blank"

\* A PDF's CreationDate costs the capture only when its zone is a day or more
\* off UTC, whichever parser reads it; any other malformed date is done without.
PdfDatesDegrade ==
  kind = "pdf" /\ status = "400" =>
    /\ state = "exception"
    /\ creation.zone >= 24 * 60 \/ creation.zone <= -24 * 60

\* The catch-all web extractor and the pdf suffix never take a URL from the
\* extractor of its site.
SpecificExtractorWins ==
  kind # "none" =>
    /\ kind = "web" => ~XSupports(url) /\ ~YouTubeSupports(url) /\ ~PdfSupports(url)
    /\ kind = "pdf" => ~XSupports(url) /\ ~YouTubeSupports(url)

\* Every extraction ends, however its upstreams behave, unless the one that is
\* asked without a timeout never answers.
ExtractionEnds == <>(status # "none") \/ <>[]Untimed
=============================================================================
