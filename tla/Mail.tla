-------------------------------- MODULE Mail --------------------------------
(***************************************************************************)
(* Mail intake. Cloudflare hands over a raw message, once for each of its  *)
(* recipients and again when it has no answer, and the endpoint says 200   *)
(* to whatever comes. A message is a tree of parts, given in the order     *)
(* they are written, each with the one it is inside; what is stored of it  *)
(* is the first plain text and the first HTML that walkPartsForText comes  *)
(* upon. Decodings of transfer, charset and headers are left out, but for  *)
(* their failure.                                                          *)
(***************************************************************************)
EXTENDS Integers, Sequences, SequencesExt, TLC

CONSTANTS
  Message,     \* messages that are sent
  IdOf,        \* IdOf[m]: its Message-ID, or NoText
  PartsOf,     \* PartsOf[m]: itself and the parts inside, [kind, text, inside, attached, damaged];
               \* inside is the place of the multipart that holds a part, 0 for itself
  ToOf,        \* ToOf[m]: its recipients, of the envelopes or else of its To
  NoText,
  Blank,       \* a text of line ends only
  TextOf,      \* TextOf[h]: the text of the markup h
  Courier,     \* deliveries at a time
  MaxDeliveries  \* bound: deliveries

VARIABLES
  mails,       \* rows, in the order they were inserted
  delivery,    \* delivery[c]: the envelope that c hands over, its time stamp, the next step
  sent,        \* deliveries begun
  received     \* envelopes that were answered received: TRUE

vars == <<mails, delivery, sent, received>>

Idle == [at |-> "none", envelope |-> NoText, ts |-> 0]

(* What one delivery carries: a message, and one of its recipients (x-orig-to). *)
Envelope == UNION {{m} \X ToOf[m] : m \in Message}

(* Texts that are found: plain and HTML, and whether the walk was broken off. *)
Found(plain, html, broken) == [plain |-> plain, html |-> html, broken |-> broken]
Nothing == Found(NoText, NoText, FALSE)
Inside(letter, c) == SelectSeq([i \in DOMAIN letter |-> i], LAMBDA i : letter[i].inside = c)

(* The first of each kind, depth first; a part that cannot be read ends the walk, and what
   the parts before it in the same container had is kept only there. *)
WalkPartsForText(letter, container) ==
  LET Add(so, p, inner) ==
        IF so.broken \/ p.attached THEN so
        ELSE IF p.kind = "multipart"
        THEN IF inner.broken THEN [so EXCEPT !.broken = TRUE]
             ELSE Found(IF so.plain = NoText THEN inner.plain ELSE so.plain,
                        IF so.html = NoText THEN inner.html ELSE so.html, FALSE)
        ELSE IF p.kind \notin {"plain", "html"} \/ so[p.kind] # NoText THEN so
        ELSE IF p.damaged THEN [so EXCEPT !.broken = TRUE]
        ELSE [so EXCEPT ![p.kind] = p.text]
      In[c \in DOMAIN letter] ==
        FoldLeft(LAMBDA so, i : Add(so, letter[i], In[i]), Nothing, Inside(letter, c))
  IN  In[container]

HtmlToText(h) == IF h \in {NoText, Blank} THEN NoText ELSE TextOf[h]
PreferText(plain, html) == IF plain \notin {NoText, Blank} THEN plain ELSE HtmlToText(html)
TrimRight(text) == IF text = Blank THEN NoText ELSE text

ExtractParts(m) ==
  LET top == PartsOf[m][1] IN
  IF top.kind = "multipart"
  THEN LET found == WalkPartsForText(PartsOf[m], 1)
       IN  [body |-> TrimRight(PreferText(found.plain, found.html)), html |-> TrimRight(found.html)]
  ELSE IF top.damaged \/ top.kind \notin {"plain", "html"} THEN [body |-> NoText, html |-> NoText]
  ELSE IF top.kind = "html" THEN [body |-> TrimRight(HtmlToText(top.text)), html |-> TrimRight(top.text)]
  ELSE [body |-> TrimRight(top.text), html |-> NoText]

ParseInboundMail(e, ts) ==
  [of |-> e[1], to |-> e[2], ts |-> ts, id |-> IdOf[e[1]],
   body |-> ExtractParts(e[1]).body, html |-> ExtractParts(e[1]).html]

Init ==
  /\ mails = <<>>
  /\ delivery = [c \in Courier |-> Idle]
  /\ sent = 0
  /\ received = {}

(* A message comes for one of its recipients, for the first time or again. *)
Inbound(c) ==
  /\ delivery[c] = Idle /\ sent < MaxDeliveries
  /\ sent' = sent + 1
  /\ \E e \in Envelope : delivery' = [delivery EXCEPT ![c] = [at |-> "insert", envelope |-> e, ts |-> sent + 1]]
  /\ UNCHANGED <<mails, received>>

ConflictsNever(id) == FALSE   \* mutant: no unique index

(* ON CONFLICT (message_id) DO NOTHING; rows without an ID do not conflict. *)
Conflicts(id) == id # NoText /\ \E i \in DOMAIN mails : mails[i].id = id

Insert(c) ==
  /\ delivery[c].at = "insert"
  /\ LET new == ParseInboundMail(delivery[c].envelope, delivery[c].ts) IN
     mails' = IF Conflicts(new.id) THEN mails ELSE Append(mails, new)
  /\ delivery' = [delivery EXCEPT ![c].at = "answer"]
  /\ UNCHANGED <<sent, received>>

(* The answer may be lost, and the message sent again. *)
Answer(c) ==
  /\ delivery[c].at = "answer"
  /\ received' \in {received, received \cup {delivery[c].envelope}}
  /\ delivery' = [delivery EXCEPT ![c] = Idle]
  /\ UNCHANGED <<mails, sent>>

(* body_unreadable, parse_failed, store_failed: 200, and nothing is stored *)
Drop(c) ==
  /\ delivery[c].at = "insert"
  /\ delivery' = [delivery EXCEPT ![c] = Idle]
  /\ UNCHANGED <<mails, sent, received>>

Next == \E c \in Courier : Inbound(c) \/ Insert(c) \/ Answer(c) \/ Drop(c)

Spec == Init /\ [][Next]_vars
-----------------------------------------------------------------------------
(* 20 unless the client asks otherwise, 200 at most *)
ParseMailLimit(asked) == IF asked < 1 THEN 20 ELSE IF asked > 200 THEN 200 ELSE asked

(* the time stamps of the mails to an address, the newest first, and the mail of one *)
ListMails(to, asked) ==
  LET mine == SortSeq(SelectSeq(mails, LAMBDA r : r.to = to), LAMBDA r, s : r.ts > s.ts)
      n == ParseMailLimit(asked)
  IN  [i \in 1 .. IF Len(mine) < n THEN Len(mine) ELSE n |-> mine[i].ts]

GetMail(ts) == mails[CHOOSE i \in DOMAIN mails : mails[i].ts = ts]

MailTypeOK ==
  /\ \A i \in DOMAIN mails : mails[i].of \in Message /\ mails[i].to \in ToOf[mails[i].of]
  /\ \A c \in Courier : delivery[c].at \in {"none", "insert", "answer"}
  /\ received \subseteq Envelope

(* The texts of a message, in the order they are written; what is attached is none. *)
Leaves(m) ==
  LET letter == PartsOf[m]
      Shown[i \in DOMAIN letter] == i = 1 \/ (~letter[i].attached /\ Shown[letter[i].inside])
  IN  SelectSeq([i \in DOMAIN letter |-> [p |-> letter[i], shown |-> Shown[i]]],
                LAMBDA e : e.shown /\ e.p.kind # "multipart")

FirstText(m, kind) ==
  LET some == SelectSeq(Leaves(m), LAMBDA e : e.p.kind = kind /\ e.p.text # NoText)
  IN  IF some = <<>> THEN NoText ELSE some[1].p.text

Whole(m) == \A i \in DOMAIN Leaves(m) : ~Leaves(m)[i].p.damaged

(* The row that stands for what was handed over: its own, or the one row of its Message-ID,
   which is of whatever came first with that ID, be it for another recipient. *)
Stands(row, e) ==
  IF IdOf[e[1]] = NoText THEN row.of = e[1] /\ row.to = e[2] ELSE row.id = IdOf[e[1]]

(* What was answered as received has its row, which is there to be listed, however often and
   in whatever order it was delivered; of one Message-ID there is one row. The body of a row
   is the first plain text that is written in the message, unless that is blank, or else the
   text of its first HTML, wherever they stand in the tree: unless a part of it is damaged. *)
MailIsKept ==
  /\ \A e \in received :
       \E i \in DOMAIN mails :
         /\ Stands(mails[i], e)
         /\ \E j \in DOMAIN ListMails(mails[i].to, 200) : GetMail(ListMails(mails[i].to, 200)[j]) = mails[i]
  /\ \A i, j \in DOMAIN mails : i # j /\ mails[i].id = mails[j].id => mails[i].id = NoText
  /\ \A i \in DOMAIN mails :
       LET m == mails[i].of IN
       Whole(m) =>
         /\ mails[i].html = TrimRight(FirstText(m, "html"))
         /\ mails[i].body = TrimRight(PreferText(FirstText(m, "plain"), FirstText(m, "html")))
=============================================================================
