------------------------------- MODULE Tweets -------------------------------
(***************************************************************************)
(* What XExtractor makes of the JSON its upstreams answer with: the title, *)
(* the description and the sections of the body.  Text is abstracted to    *)
(* whether there is any; of a tweet's text and an article's title it also  *)
(* matters whether what the title is taken from is blank.                  *)
(***************************************************************************)

Texts == {"none", "blankFirst", "line"}   \* by the first line
ArticleTitles == {"none", "blank", "given"}

\* content: a subtitle or a block that renders to something.
Articles == [title : ArticleTitles, content : BOOLEAN]
NoArticle == [title |-> "none", content |-> FALSE, absent |-> TRUE]

\* author: null in the JSON, without a screen name, or with one.
Quotes == [author : {"null", "anonymous", "named"}, text : BOOLEAN, url : BOOLEAN]
NoQuote == [author |-> "anonymous", text |-> FALSE, url |-> FALSE, absent |-> TRUE]

\* fxtwitter's "tweet".  A reply names whom it replies to; media is a list with
\* an item that has a URL; note is a community note that is not blank.
FxTweets ==
  [text : Texts, article : Articles \cup {NoArticle}, author : BOOLEAN,
   reply : BOOLEAN, media : BOOLEAN, note : BOOLEAN, quote : Quotes \cup {NoQuote}]

\* vxtwitter's flat object, in the same terms; it has neither articles nor
\* replies, and a quoted tweet has no url.
VxTweets ==
  {t \in FxTweets :
     /\ t.article = NoArticle /\ ~t.reply
     /\ t.quote = NoQuote \/ (t.quote.author # "null" /\ ~t.quote.url)}

\* The payload of the other extractors' captures.
NoTweet ==
  [text |-> "none", article |-> NoArticle, author |-> FALSE, reply |-> FALSE,
   media |-> FALSE, note |-> FALSE, quote |-> NoQuote]

Sections == {"reply", "article", "text", "media", "note", "quote"}

-----------------------------------------------------------------------------
ArticleRendered(a) == a.title = "given" \/ a.content
FxQuoteRendered(q) == q.text \/ q.url

\* Mutated form: an article takes the place of the media too.
FxBodyArticleAlone(t) ==
  {s \in Sections :
     \/ s = "reply" /\ t.reply
     \/ s = "article" /\ t.article # NoArticle /\ ArticleRendered(t.article)
     \/ s = "text" /\ t.article = NoArticle /\ t.text # "none"
     \/ s = "media" /\ t.article = NoArticle /\ t.media
     \/ s = "note" /\ t.note
     \/ s = "quote" /\ FxQuoteRendered(t.quote)}

\* _render_body: an article takes the place of the text, whatever it holds.
FxBody(t) ==
  {s \in Sections :
     \/ s = "reply" /\ t.reply
     \/ s = "article" /\ t.article # NoArticle /\ ArticleRendered(t.article)
     \/ s = "text" /\ t.article = NoArticle /\ t.text # "none"
     \/ s = "media" /\ t.media
     \/ s = "note" /\ t.note
     \/ s = "quote" /\ FxQuoteRendered(t.quote)}

\* _render_vxtwitter_body: a quoted tweet is rendered even without a text.
VxBody(t) ==
  {s \in Sections :
     \/ s = "text" /\ t.text # "none"
     \/ s = "media" /\ t.media
     \/ s = "note" /\ t.note
     \/ s = "quote" /\ t.quote # NoQuote}

\* _synthesize_title gives something that is not empty.  A quoted author is
\* appended to a base that may be blank, but not to no base.
HasTitle(t) ==
  LET articleTitle == t.article.title # "none"
      anyBase == articleTitle \/ t.text # "none" \/ t.author
      base == IF articleTitle THEN t.article.title = "given"
              ELSE IF t.text # "none" THEN t.text = "line" ELSE t.author
  IN  base \/ (anyBase /\ t.quote.author = "named")

\* `(quote or {}).get("author", {}).get(...)` of an author that is null.
FxRaises(t) == t.quote.author = "null"
=============================================================================
