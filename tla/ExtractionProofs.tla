-------------------------- MODULE ExtractionProofs --------------------------
(***************************************************************************)
(* First try_fallback_chain on its own, for chains of any length and any   *)
(* Retry-After values.  Then every extraction, which drives its sources    *)
(* as the chain promises: what it answers with, for any zone offsets.      *)
(***************************************************************************)
EXTENDS Extraction, TLAPS

-----------------------------------------------------------------------------
(***************************************************************************)
(* The chain.                                                              *)
(***************************************************************************)

\* Every reachable state of the chain is well typed.
THEOREM ChainTypeCorrect == ChainSpec => []ChainTypeOK
<1>1. ChainInit => ChainTypeOK
  BY MaxSourcesAssumption DEF ChainInit, ChainTypeOK, Retries
<1>2. ChainTypeOK /\ [ChainNext]_chainVars => ChainTypeOK'
  BY DEF ChainTypeOK, ChainNext, chainVars, Call, Skip, Finish, Retries, Ended
<1> QED
  BY <1>1, <1>2, PTL DEF ChainSpec

\* ExtractorError is raised only when every source was tried and skipped.
THEOREM ErrorsAreExhaustive == ChainSpec => []Exhaustive
<1>1. ChainInit => Exhaustive
  BY DEF ChainInit, Exhaustive
<1>2. ChainTypeOK /\ ChainTypeOK' /\ (state = "idle" => failed = << >>) /\ Exhaustive /\ [ChainNext]_chainVars
        => Exhaustive'
  <2> SUFFICES ASSUME ChainTypeOK, ChainTypeOK', state = "idle" => failed = << >>,
                      Exhaustive, [ChainNext]_chainVars
               PROVE  Exhaustive'
    OBVIOUS
  <2> USE DEF ChainTypeOK, Exhaustive
  <2>1. ASSUME NEW n \in 0..MaxSources, Call(n) PROVE Exhaustive'
    BY <2>1, MaxSourcesAssumption DEF Call
  <2>2. ASSUME NEW retry \in Retries, Skip(retry) PROVE Exhaustive'
    <3>1. Len(failed') = Len(failed) + 1
      BY <2>2 DEF Skip
    <3> QED
      BY <2>2, <3>1, MaxSourcesAssumption DEF Skip
  <2>3. ASSUME NEW how \in {"result", "exception"}, Finish(how) PROVE Exhaustive'
    BY <2>3 DEF Finish
  <2>4. CASE UNCHANGED chainVars
    BY <2>4 DEF chainVars
  <2> QED
    BY <2>1, <2>2, <2>3, <2>4 DEF ChainNext
<1>3. ChainSpec => [](state = "idle" => failed = << >>)
  <2>1. ChainInit => (state = "idle" => failed = << >>)
    BY DEF ChainInit
  <2>2. (state = "idle" => failed = << >>) /\ [ChainNext]_chainVars
          => (state = "idle" => failed = << >>)'
    BY DEF ChainNext, chainVars, Call, Skip, Finish
  <2> QED
    BY <2>1, <2>2, PTL DEF ChainSpec
<1> QED
  BY <1>1, <1>2, <1>3, ChainTypeCorrect, PTL DEF ChainSpec

\* The error carries the latest Retry-After that any skipped source gave.
THEOREM RetryAfterIsLatest == ChainSpec => []KeptIsLatest
<1>1. ChainInit => KeptIsLatest
  BY DEF ChainInit, KeptIsLatest
<1>2. ChainTypeOK /\ KeptIsLatest /\ [ChainNext]_chainVars => KeptIsLatest'
  <2> SUFFICES ASSUME ChainTypeOK, KeptIsLatest, [ChainNext]_chainVars PROVE KeptIsLatest'
    OBVIOUS
  <2>1. ASSUME NEW retry \in Retries, Skip(retry) PROVE KeptIsLatest'
    <3>1. /\ Len(failed) \in Nat
          /\ Len(failed') = Len(failed) + 1
          /\ failed'[Len(failed) + 1] = retry
          /\ \A i \in 1..Len(failed) : failed'[i] = failed[i]
      BY <2>1 DEF Skip, ChainTypeOK
    <3>2. CASE retry = NoRetry
      <4>1. kept' = kept
        BY <2>1, <3>2 DEF Skip
      <4>2. CASE kept = NoRetry /\ \A i \in 1..Len(failed) : failed[i] = NoRetry
        BY <3>1, <3>2, <4>1, <4>2 DEF KeptIsLatest
      <4>3. ASSUME NEW i \in 1..Len(failed), kept = failed[i], kept # NoRetry,
                   \A j \in i + 1..Len(failed) : failed[j] = NoRetry
            PROVE  KeptIsLatest'
        <5>1. i \in 1..Len(failed') /\ kept' = failed'[i] /\ kept' # NoRetry
          BY <3>1, <4>1, <4>3
        <5>2. \A j \in i + 1..Len(failed') : failed'[j] = NoRetry
          BY <3>1, <3>2, <4>3
        <5> QED
          BY <5>1, <5>2 DEF KeptIsLatest
      <4> QED
        BY <4>2, <4>3 DEF KeptIsLatest
    <3>3. CASE retry # NoRetry
      <4>1. kept' = failed'[Len(failed')] /\ kept' # NoRetry
        BY <2>1, <3>1, <3>3 DEF Skip
      <4>2. Len(failed') \in 1..Len(failed') /\ Len(failed') + 1..Len(failed') = {}
        BY <3>1
      <4> QED
        BY <4>1, <4>2 DEF KeptIsLatest
    <3> QED
      BY <3>2, <3>3
  <2>2. CASE UNCHANGED <<failed, kept>>
    BY <2>2 DEF KeptIsLatest
  <2> QED
    BY <2>1, <2>2 DEF ChainNext, Call, Finish, chainVars
<1> QED
  BY <1>1, <1>2, ChainTypeCorrect, PTL DEF ChainSpec

-----------------------------------------------------------------------------
(***************************************************************************)
(* An extraction is a run of the chain.                                    *)
(***************************************************************************)

\* No extractor has more sources than a chain may have.
LEMMA SourcesBounded == \A k : Len(Sources(k)) \in 0..MaxSources
  BY MaxSourcesAssumption, ChainLengthAssumption DEF Sources

\* How many it has does not depend on the PDF at hand.
LEMMA SourcesCounted ==
  \A k : UNCHANGED apiKey => Len(Sources(k))' = Len(Sources(k))
<1> SUFFICES ASSUME NEW k, UNCHANGED apiKey PROVE Len(Sources(k))' = Len(Sources(k))
  OBVIOUS
<1>1. CASE k \in {"x", "pdf", "web"}
  BY <1>1 DEF Sources
<1>2. CASE k \notin {"x", "pdf", "web"}
  <2>1. CASE apiKey
    BY <1>2, <2>1 DEF Sources
  <2>2. CASE ~apiKey
    BY <1>2, <2>2 DEF Sources
  <2> QED
    BY <2>1, <2>2
<1> QED
  BY <1>1, <1>2

\* An extraction is an execution of the chain: each of its steps is a step of
\* try_fallback_chain or leaves the chain alone.
THEOREM ExtractionDrivesChain == Spec => ChainSpec
<1>1. Init => ChainInit
  BY DEF Init
<1>2. [Next]_vars => [ChainNext]_chainVars
  <2> SUFFICES ASSUME [Next]_vars PROVE [ChainNext]_chainVars
    OBVIOUS
  <2>1. CASE Dispatch
    <3>1. CASE UNCHANGED chainVars
      BY <3>1
    <3>2. CASE Call(Len(Sources(kind')))
      BY <3>2, SourcesBounded DEF ChainNext
    <3> QED
      BY <2>1, <3>1, <3>2 DEF Dispatch
  <2>2. CASE Fetch
    BY <2>2, SourcesBounded DEF Fetch, ChainNext
  <2>3. CASE FetchFails
    BY <2>3 DEF FetchFails
  <2>4. ASSUME NEW retry \in Retries, SourceSkips(retry) PROVE ChainNext
    BY <2>4 DEF SourceSkips, ChainNext
  <2>5. CASE SourceAnswers
    BY <2>5 DEF SourceAnswers, ChainNext
  <2>6. ASSUME NEW code \in {"400", "500"}, SourceRaises(code) PROVE ChainNext
    BY <2>6 DEF SourceRaises, ChainNext
  <2>7. CASE UNCHANGED vars
    BY <2>7 DEF vars
  <2> QED
    BY <2>1, <2>2, <2>3, <2>4, <2>5, <2>6, <2>7 DEF Next
<1> QED
  BY <1>1, <1>2, PTL DEF Spec, ChainSpec

\* A request fails for want of a source only when every source of its extractor
\* was asked and skipped, and no source is asked after one that answered.
THEOREM ExtractionIsExhaustive == Spec => []Exhaustive
  BY ExtractionDrivesChain, ErrorsAreExhaustive, PTL

\* The Retry-After a failed request carries is the latest any source gave.
THEOREM ExtractionKeepsLatest == Spec => []KeptIsLatest
  BY ExtractionDrivesChain, RetryAfterIsLatest, PTL

-----------------------------------------------------------------------------
(***************************************************************************)
(* The registry and the sources.                                           *)
(***************************************************************************)

\* Some extractor takes every URL, and none before it does.
LEMMA FirstSupports ==
  ASSUME NEW u
  PROVE  \E i \in 1..4 :
           /\ Find(u) = Registry[i]
           /\ Supports(Registry[i], u)
           /\ \A j \in 1..i - 1 : ~Supports(Registry[j], u)
<1> DEFINE First(i) == /\ Supports(Registry[i], u)
                       /\ \A j \in 1..i - 1 : ~Supports(Registry[j], u)
<1>1. Len(Registry) = 4
  BY DEF Registry
<1>2. Supports(Registry[4], u)
  BY DEF Supports, Registry, WebSupports
<1>3. \E i \in 1..4 : First(i)
  <2>1. CASE Supports(Registry[1], u)
    BY <2>1
  <2>2. CASE ~Supports(Registry[1], u) /\ Supports(Registry[2], u)
    <3>1. \A j \in 1..2 - 1 : j = 1
      OBVIOUS
    <3> QED
      BY <2>2, <3>1
  <2>3. CASE ~Supports(Registry[1], u) /\ ~Supports(Registry[2], u) /\ Supports(Registry[3], u)
    <3>1. \A j \in 1..3 - 1 : j = 1 \/ j = 2
      OBVIOUS
    <3> QED
      BY <2>3, <3>1
  <2>4. CASE ~Supports(Registry[1], u) /\ ~Supports(Registry[2], u) /\ ~Supports(Registry[3], u)
    <3>1. \A j \in 1..4 - 1 : j = 1 \/ j = 2 \/ j = 3
      OBVIOUS
    <3> QED
      BY <1>2, <2>4, <3>1
  <2> QED
    BY <2>1, <2>2, <2>3, <2>4
<1>4. Find(u) = Registry[CHOOSE i \in 1..4 : First(i)]
  BY <1>1 DEF Find
<1> HIDE DEF First
<1>5. (CHOOSE i \in 1..4 : First(i)) \in 1..4 /\ First(CHOOSE i \in 1..4 : First(i))
  BY <1>3
<1> QED
  BY <1>4, <1>5 DEF First

\* The extractor of a site is asked before the pdf suffix, and that before the
\* catch-all.
LEMMA FindFacts ==
  ASSUME NEW u
  PROVE  /\ Find(u) \in Kinds
         /\ Find(u) = "web" => ~XSupports(u) /\ ~YouTubeSupports(u) /\ ~PdfSupports(u)
         /\ Find(u) = "pdf" => ~XSupports(u) /\ ~YouTubeSupports(u)
<1>1. PICK i \in 1..4 :
        /\ Find(u) = Registry[i]
        /\ Supports(Registry[i], u)
        /\ \A j \in 1..i - 1 : ~Supports(Registry[j], u)
  BY FirstSupports
<1>2. /\ Registry[1] = "x" /\ Registry[2] = "youtube"
      /\ Registry[3] = "pdf" /\ Registry[4] = "web"
  BY DEF Registry
<1>3. /\ Supports("x", u) <=> XSupports(u)
      /\ Supports("youtube", u) <=> YouTubeSupports(u)
      /\ Supports("pdf", u) <=> PdfSupports(u)
  BY DEF Supports
<1>4. i = 1 \/ i = 2 \/ i = 3 \/ i = 4
  OBVIOUS
<1>5. ASSUME i = 3 PROVE ~XSupports(u) /\ ~YouTubeSupports(u)
  <2>1. 1 \in 1..i - 1 /\ 2 \in 1..i - 1
    BY <1>5
  <2> QED
    BY <1>1, <1>2, <1>3, <2>1
<1>6. ASSUME i = 4 PROVE ~XSupports(u) /\ ~YouTubeSupports(u) /\ ~PdfSupports(u)
  <2>1. 1 \in 1..i - 1 /\ 2 \in 1..i - 1 /\ 3 \in 1..i - 1
    BY <1>6
  <2> QED
    BY <1>1, <1>2, <1>3, <2>1
<1> QED
  BY <1>1, <1>2, <1>4, <1>5, <1>6 DEF Kinds

\* What the sources of an extractor may answer with.
TweetCaptures ==
  {FxCapture(t) : t \in FxTweets} \cup {VxCapture(t) : t \in VxTweets}

TextCaptures == {c \in PlainCaptures : c.title \/ c.body # {}}

Answers(k) == IF k = "x" THEN TweetCaptures ELSE TextCaptures

LEMMA SourcesAnswer ==
  ASSUME NEW k \in Kinds, NEW i \in 1..Len(Sources(k)),
         NEW reply \in Sources(k)[i], reply.tag = "result"
  PROVE  reply.capture \in Answers(k)
<1> USE DEF Skipped, Raised, Parsed, JsonApiFailures
<1>1. ASSUME k = "x" PROVE reply \in Fxtwitter \cup Vxtwitter
  BY <1>1 DEF Sources
<1>2. ASSUME reply \in Fxtwitter \cup Vxtwitter PROVE reply.capture \in TweetCaptures
  BY <1>2 DEF Fxtwitter, Vxtwitter, TweetCaptures
<1>3. ASSUME k = "pdf" PROVE reply \in Markitdown \cup Pdfplumber
  BY <1>3 DEF Sources
<1>4. ASSUME reply \in Markitdown \cup Pdfplumber PROVE reply.capture \in TextCaptures
  BY <1>4 DEF Markitdown, Pdfplumber, PdfTexts, TextCaptures
<1>5. ASSUME k = "web" PROVE reply \in Trafilatura \cup Readability
  BY <1>5 DEF Sources
<1>6. ASSUME reply \in Trafilatura \cup Readability PROVE reply.capture \in TextCaptures
  BY <1>6 DEF Trafilatura, Readability, TextCaptures
<1>7. ASSUME k = "youtube" PROVE reply \in YtDlp \cup TranscriptApi \cup ApiV3
  BY <1>7 DEF Sources
<1>8. ASSUME reply \in YtDlp \cup TranscriptApi \cup ApiV3 PROVE reply.capture \in TextCaptures
  BY <1>8 DEF YtDlp, TranscriptApi, ApiV3, TextCaptures
<1> QED
  BY <1>1, <1>2, <1>3, <1>4, <1>5, <1>6, <1>7, <1>8 DEF Answers, Kinds

CaptureTypes ==
  [title : BOOLEAN, description : BOOLEAN, body : SUBSET Sections, payload : FxTweets]

\* Whatever a source answers with is a capture.
LEMMA AnswersAreCaptures ==
  /\ NoText \in CaptureTypes
  /\ \A k \in Kinds : Answers(k) \subseteq CaptureTypes
<1>1. NoTweet \in FxTweets
  <2>1. "none" \in Texts /\ FALSE \in BOOLEAN
    BY DEF Texts
  <2> QED
    BY <2>1 DEF NoTweet, FxTweets
<1>2. NoText \in CaptureTypes
  BY <1>1 DEF NoText, CaptureTypes
<1>3. TextCaptures \subseteq CaptureTypes
  BY <1>1 DEF TextCaptures, PlainCaptures, CaptureTypes, Sections
<1>4. ASSUME NEW t \in FxTweets
      PROVE  FxCapture(t) \in CaptureTypes /\ VxCapture(t) \in CaptureTypes
  <2>1. HasTitle(t) \in BOOLEAN /\ (t.text # "none") \in BOOLEAN
    BY DEF HasTitle
  <2>2. FxBody(t) \subseteq Sections /\ VxBody(t) \subseteq Sections
    BY DEF FxBody, VxBody
  <2> QED
    BY <2>1, <2>2 DEF FxCapture, VxCapture, CaptureTypes
<1>5. TweetCaptures \subseteq CaptureTypes
  BY <1>4 DEF TweetCaptures, VxTweets
<1> QED
  BY <1>2, <1>3, <1>5 DEF Answers

\* What fxtwitter gives of a tweet keeps all it says; what vxtwitter gives keeps
\* all that its tweets can say, and is the same unless a quoted tweet is silent.
LEMMA TweetFacts ==
  ASSUME NEW t \in FxTweets
  PROVE  /\ Said(t) \subseteq FxBody(t)
         /\ t.text # "none" /\ t.article = NoArticle => "text" \in FxBody(t)
         /\ t \in VxTweets => Said(t) \subseteq VxBody(t)
         /\ t \in VxTweets /\ t.text # "none" => "text" \in VxBody(t)
         /\ t \in VxTweets /\ (t.quote # NoQuote => t.quote.text) => FxCapture(t) = VxCapture(t)
<1>1. NoArticle.title = "none" /\ ~NoArticle.content
  BY DEF NoArticle
<1>2. ~NoQuote.text /\ ~NoQuote.url
  BY DEF NoQuote
<1>3. Said(t) \subseteq FxBody(t)
  BY <1>1 DEF Said, FxBody, ArticleRendered, FxQuoteRendered
<1>4. t.text # "none" /\ t.article = NoArticle => "text" \in FxBody(t)
  BY DEF FxBody, Sections
<1>5. t \in VxTweets => t.article = NoArticle /\ ~t.reply
  BY DEF VxTweets
<1>6. t \in VxTweets => (t.quote = NoQuote \/ ~t.quote.url)
  BY DEF VxTweets
<1>7. t \in VxTweets => Said(t) \subseteq VxBody(t)
  BY <1>1, <1>2, <1>5 DEF Said, VxBody
<1>8. t \in VxTweets /\ t.text # "none" => "text" \in VxBody(t)
  BY DEF VxBody, Sections
<1>9. ASSUME t \in VxTweets, t.quote # NoQuote => t.quote.text
      PROVE  FxBody(t) = VxBody(t)
  <2>1. FxQuoteRendered(t.quote) <=> t.quote # NoQuote
    BY <1>2, <1>6, <1>9 DEF FxQuoteRendered
  <2>2. ASSUME NEW s \in Sections PROVE s \in FxBody(t) <=> s \in VxBody(t)
    <3>1. t.article = NoArticle /\ ~t.reply
      BY <1>5, <1>9
    <3>2. s \in FxBody(t) <=>
            \/ s = "text" /\ t.text # "none"
            \/ s = "media" /\ t.media
            \/ s = "note" /\ t.note
            \/ s = "quote" /\ FxQuoteRendered(t.quote)
      BY <3>1 DEF FxBody
    <3> QED
      BY <2>1, <3>2 DEF VxBody
  <2>3. FxBody(t) \subseteq Sections /\ VxBody(t) \subseteq Sections
    BY DEF FxBody, VxBody
  <2> QED
    BY <2>2, <2>3
<1> QED
  BY <1>3, <1>4, <1>7, <1>8, <1>9 DEF FxCapture, VxCapture

\* What a capture of a tweet is made of.
LEMMA TweetCaptureFacts ==
  ASSUME NEW c \in TweetCaptures
  PROVE  \E t \in FxTweets :
           /\ c.payload = t
           /\ c.description <=> t.text # "none"
           /\ c.title <=> HasTitle(t)
           /\ c.body = FxBody(t) \/ (t \in VxTweets /\ c.body = VxBody(t))
<1>1. ASSUME NEW t \in FxTweets, c = FxCapture(t)
      PROVE  /\ c.payload = t /\ (c.description <=> t.text # "none")
             /\ (c.title <=> HasTitle(t)) /\ c.body = FxBody(t)
  BY <1>1 DEF FxCapture
<1>2. ASSUME NEW t \in VxTweets, c = VxCapture(t)
      PROVE  /\ c.payload = t /\ (c.description <=> t.text # "none")
             /\ (c.title <=> HasTitle(t)) /\ c.body = VxBody(t)
  BY <1>2 DEF VxCapture
<1>3. VxTweets \subseteq FxTweets
  BY DEF VxTweets
<1> QED
  BY <1>1, <1>2, <1>3 DEF TweetCaptures

\* A tweet without a title has no text either, and no author, unless an article
\* with a blank title keeps it from being the title.
LEMMA TitleFacts ==
  ASSUME NEW t \in FxTweets, ~HasTitle(t), t.text = "none", t.author
  PROVE  t.article.title = "blank"
<1>1. t.article.title \in ArticleTitles
  BY DEF FxTweets, Articles, NoArticle, ArticleTitles
<1>2. t.article.title # "given"
  BY DEF HasTitle
<1>3. t.article.title # "none"
  BY DEF HasTitle
<1> QED
  BY <1>1, <1>2, <1>3 DEF ArticleTitles

-----------------------------------------------------------------------------
(***************************************************************************)
(* What a request ends with.                                               *)
(***************************************************************************)

\* The chain that runs is that of the extractor found; it ended when the request
\* has a status.  A capture is an answer of one of the extractor's sources, and a
\* PDF is refused for the date it was refused for.
ExtractionInv ==
  /\ kind = "none" => state = "idle" /\ status = "none"
  /\ kind # "none" => kind = Find(url)
  /\ state = "trying" => /\ kind # "none" /\ status = "none"
                         /\ length = Len(Sources(kind))
  /\ status = "extracted" => capture \in Answers(kind)
  /\ kind = "pdf" /\ status = "400" => state = "exception" /\ PdfDate(creation) = "ValueError"

IndInv == TypeOK /\ ExtractionInv

LEMMA InitInvariant == Init => IndInv
<1> SUFFICES ASSUME Init PROVE IndInv
  OBVIOUS
<1>1. ChainTypeOK
  BY MaxSourcesAssumption DEF Init, ChainInit, ChainTypeOK, Retries
<1>2. capture \in CaptureTypes
  BY AnswersAreCaptures DEF Init
<1>3. TypeOK
  BY <1>1, <1>2 DEF Init, TypeOK, CaptureTypes, Retries
<1>4. ExtractionInv
  BY DEF Init, ChainInit, ExtractionInv
<1> QED
  BY <1>3, <1>4 DEF IndInv

\* A source is asked only while there is one.
LEMMA RepliesOfASource ==
  ASSUME IndInv, Exhaustive, state = "trying"
  PROVE  /\ kind \in Kinds
         /\ Len(failed) + 1 \in 1..Len(Sources(kind))
<1>1. Len(failed) < length /\ length = Len(Sources(kind)) /\ kind # "none"
  BY DEF Exhaustive, IndInv, ExtractionInv
<1>2. Len(failed) \in Nat /\ length \in Nat /\ kind \in Kinds \cup {"none"}
  BY MaxSourcesAssumption DEF IndInv, TypeOK, ChainTypeOK
<1> QED
  BY <1>1, <1>2

\* The registry picks the extractor.
LEMMA DispatchStep == ASSUME IndInv, ChainTypeOK', Dispatch PROVE IndInv'
<1>1. /\ kind = "none" /\ kind' = Find(url) /\ kind' \in Kinds
      /\ UNCHANGED <<url, apiKey, creation, capture, header>>
      /\ state = "idle" /\ status = "none"
  BY FindFacts DEF Dispatch, request, IndInv, ExtractionInv
<1>2. kind' # "none"
  BY <1>1 DEF Kinds
<1>3. \/ kind' = "x" /\ status' = "400" /\ UNCHANGED chainVars
      \/ status' = status /\ UNCHANGED chainVars
      \/ status' = status /\ Call(Len(Sources(kind')))
  BY DEF Dispatch
<1>4. TypeOK'
  BY <1>1, <1>3 DEF IndInv, TypeOK
<1>5. ExtractionInv'
  <2>1. state' = "trying" => status' = "none" /\ length' = Len(Sources(kind'))
    BY <1>1, <1>3 DEF Call, chainVars
  <2>2. Len(Sources(kind))' = Len(Sources(kind'))
    BY <1>1, SourcesCounted
  <2>3. status' # "extracted" /\ (kind' = "pdf" => status' # "400")
    BY <1>1, <1>3
  <2> QED
    BY <1>1, <1>2, <2>1, <2>2, <2>3 DEF ExtractionInv
<1> QED
  BY <1>4, <1>5 DEF IndInv

\* Steps of the sources and of the fetch, of which only one captures.
LEMMA SourceStep ==
  ASSUME IndInv, ChainTypeOK', UNCHANGED <<url, apiKey, kind>>, kind # "none", status = "none",
         creation' \in CreationDates \cup {NoDate}, header' \in Retries,
         status' \in {"none", "extracted", "400", "500", "502"},
         state' = "trying" => status' = "none" /\ length' = Len(Sources(kind)),
         IF status' = "extracted" THEN capture' \in Answers(kind) ELSE capture' = capture,
         kind = "pdf" /\ status' = "400" => state' = "exception" /\ PdfDate(creation') = "ValueError"
  PROVE  IndInv'
<1>1. kind \in Kinds /\ kind = Find(url)
  BY DEF IndInv, TypeOK, ExtractionInv
<1>2. capture' \in CaptureTypes
  BY <1>1, AnswersAreCaptures DEF IndInv, TypeOK, CaptureTypes
<1>3. TypeOK'
  BY <1>1, <1>2 DEF IndInv, TypeOK, CaptureTypes
<1>4. ExtractionInv'
  <2>1. Len(Sources(kind))' = Len(Sources(kind)) /\ Answers(kind)' = Answers(kind)
    BY SourcesCounted DEF Answers
  <2>2. PdfDate(creation)' = PdfDate(creation')
    BY DEF PdfDate
  <2>3. Find(url)' = Find(url)
    BY DEF Find
  <2> QED
    BY <1>1, <2>1, <2>2, <2>3 DEF ExtractionInv
<1> QED
  BY <1>3, <1>4 DEF IndInv

LEMMA NextInvariant ==
  ASSUME IndInv, Exhaustive, ChainTypeOK', [Next]_vars
  PROVE  IndInv'
<1>t. /\ TypeOK /\ ExtractionInv
      /\ creation \in CreationDates \cup {NoDate} /\ header \in Retries
  BY DEF IndInv, TypeOK
<1>1. ASSUME Dispatch PROVE IndInv'
  BY <1>1, DispatchStep
<1>2. ASSUME Fetch PROVE IndInv'
  <2>1. /\ UNCHANGED <<url, apiKey, kind, status, header, capture>>
        /\ kind \in {"pdf", "web"} /\ status = "none"
        /\ creation' \in CreationDates \cup {NoDate}
    BY <1>2 DEF Fetch, Fetching, request
  <2>2. state' = "trying" => length' = Len(Sources(kind))
    BY <1>2 DEF Fetch, Call
  <2> QED
    BY <1>t, <2>1, <2>2, SourceStep
<1>3. ASSUME FetchFails PROVE IndInv'
  <2>1. /\ UNCHANGED <<url, apiKey, kind, creation, header, capture, state>>
        /\ kind \in {"pdf", "web"} /\ state = "idle" /\ status = "none"
        /\ status' \in {"500", "502"}
    BY <1>3 DEF FetchFails, Fetching, request, chainVars
  <2> QED
    BY <1>t, <2>1, SourceStep
<1>4. ASSUME NEW retry \in Retries, SourceSkips(retry) PROVE IndInv'
  <2>1. /\ UNCHANGED <<url, apiKey, kind, creation, capture, length>>
        /\ kind # "none" /\ status = "none" /\ length = Len(Sources(kind))
    BY <1>t, <1>4 DEF SourceSkips, Skip, request, ExtractionInv
  <2>2. \/ state' = "ExtractorError" /\ status' = "502"
        \/ state' # "ExtractorError" /\ status' = "none"
    BY <1>4, <2>1 DEF SourceSkips
  <2>3. header' \in Retries
    BY <1>t, <1>4 DEF SourceSkips, ChainTypeOK, Retries
  <2> QED
    BY <1>t, <2>1, <2>2, <2>3, SourceStep
<1>5. ASSUME SourceAnswers PROVE IndInv'
  <2>1. /\ UNCHANGED <<url, apiKey, kind, creation, header>> /\ state' = "result"
        /\ state = "trying" /\ kind # "none" /\ status = "none" /\ status' = "extracted"
    BY <1>t, <1>5 DEF SourceAnswers, Finish, request, ExtractionInv
  <2>2. capture' \in Answers(kind)
    BY <1>5, <2>1, RepliesOfASource, SourcesAnswer DEF SourceAnswers, Replies
  <2> QED
    BY <1>t, <2>1, <2>2, SourceStep
<1>6. ASSUME NEW code \in {"400", "500"}, SourceRaises(code) PROVE IndInv'
  <2>1. /\ UNCHANGED <<url, apiKey, kind, creation, header, capture>> /\ state' = "exception"
        /\ state = "trying" /\ kind # "none" /\ status = "none" /\ status' = code
    BY <1>t, <1>6 DEF SourceRaises, Finish, request, ExtractionInv
  <2>2. ASSUME kind = "pdf", code = "400" PROVE PdfDate(creation) = "ValueError"
    <3>1. Raised("400") \in Markitdown \cup Pdfplumber
      BY <1>6, <2>1, <2>2, RepliesOfASource DEF SourceRaises, Replies, Sources
    <3> QED
      BY <3>1 DEF Markitdown, Pdfplumber, PdfTexts, Raised, Skipped, Parsed
  <2> QED
    BY <1>t, <2>1, <2>2, SourceStep
<1>7. ASSUME UNCHANGED vars PROVE IndInv'
  BY <1>t, <1>7, SourcesCounted DEF vars, chainVars, request, IndInv, TypeOK, ChainTypeOK, ExtractionInv,
    Answers, PdfDate, Find
<1> QED
  BY <1>1, <1>2, <1>3, <1>4, <1>5, <1>6, <1>7 DEF Next

THEOREM ExtractionInvariance == Spec => []IndInv
<1>1. Init => IndInv
  BY InitInvariant
<1>2. IndInv /\ Exhaustive /\ ChainTypeOK' /\ [Next]_vars => IndInv'
  BY NextInvariant
<1>3. Spec => []ChainTypeOK
  BY ExtractionDrivesChain, ChainTypeCorrect, PTL
<1> QED
  BY <1>1, <1>2, <1>3, ExtractionIsExhaustive, PTL DEF Spec

\* Every reachable state of an extraction is well typed.
THEOREM ExtractionTypeCorrect == Spec => []TypeOK
<1>1. IndInv => TypeOK
  BY DEF IndInv
<1> QED
  BY <1>1, ExtractionInvariance, PTL

\* No extractor is shadowed by a more general one (_build_default_registry, find).
THEOREM SpecificWins == Spec => []SpecificExtractorWins
<1>1. IndInv => SpecificExtractorWins
  BY FindFacts DEF IndInv, ExtractionInv, SpecificExtractorWins
<1> QED
  BY <1>1, ExtractionInvariance, PTL

\* Of all malformed dates only a zone a day or more off UTC makes a PDF fail, for
\* any zones there may be (_parse_pdf_date).
THEOREM DatesDegrade == Spec => []PdfDatesDegrade
<1>1. IndInv => PdfDatesDegrade
  <2> SUFFICES ASSUME IndInv, kind = "pdf", status = "400" PROVE PdfDatesDegrade
    BY DEF PdfDatesDegrade
  <2>1. state = "exception" /\ PdfDate(creation) = "ValueError"
    BY DEF IndInv, ExtractionInv
  <2>2. creation.zone >= 24 * 60 \/ creation.zone <= -24 * 60
    BY <2>1 DEF PdfDate
  <2> QED
    BY <2>1, <2>2 DEF PdfDatesDegrade
<1> QED
  BY <1>1, ExtractionInvariance, PTL

\* No tweet loses a part on its way into a capture, and both upstreams give the
\* same capture of a tweet they can both express (_render_body and its twin).
THEOREM NothingOfATweetIsLost == Spec => []TweetsAreKept
<1>1. IndInv => TweetsAreKept
  <2> SUFFICES ASSUME IndInv, kind = "x", status = "extracted" PROVE TweetsAreKept
    BY DEF TweetsAreKept
  <2>1. capture \in TweetCaptures
    BY DEF IndInv, ExtractionInv, Answers
  <2>2. PICK t \in FxTweets :
          /\ capture.payload = t /\ (capture.description <=> t.text # "none")
          /\ capture.body = FxBody(t) \/ (t \in VxTweets /\ capture.body = VxBody(t))
    BY <2>1, TweetCaptureFacts
  <2> QED
    BY <2>2, TweetFacts DEF TweetsAreKept
<1> QED
  BY <1>1, ExtractionInvariance, PTL

\* A capture without any text is one of a tweet that says nothing; a chain never
\* answers with an empty page, PDF or video (the emptiness checks of the sources).
THEOREM TextIsCaptured == Spec => []CapturesHaveText
<1>1. IndInv => CapturesHaveText
  <2> SUFFICES ASSUME IndInv, status = "extracted", ~EmbedText(capture)
               PROVE  /\ kind = "x"
                      /\ Said(capture.payload) = {} /\ capture.payload.text = "none"
                      /\ capture.payload.author => capture.payload.article.title = "blank"
    BY DEF CapturesHaveText
  <2>1. ~capture.title /\ ~capture.description /\ capture.body = {}
    BY DEF EmbedText
  <2>2. kind = "x"
    BY <2>1 DEF IndInv, ExtractionInv, Answers, TextCaptures
  <2>3. capture \in TweetCaptures
    BY <2>2 DEF IndInv, ExtractionInv, Answers
  <2>4. PICK t \in FxTweets :
          /\ capture.payload = t /\ (capture.description <=> t.text # "none")
          /\ capture.title <=> HasTitle(t)
          /\ capture.body = FxBody(t) \/ (t \in VxTweets /\ capture.body = VxBody(t))
    BY <2>3, TweetCaptureFacts
  <2>5. Said(t) = {} /\ t.text = "none" /\ ~HasTitle(t)
    BY <2>1, <2>4, TweetFacts
  <2> QED
    BY <2>2, <2>4, <2>5, TitleFacts
<1> QED
  BY <1>1, ExtractionInvariance, PTL
=============================================================================
