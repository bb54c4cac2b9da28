------------------------------ MODULE EmailAuth -----------------------------
(***************************************************************************)
(* What the MX makes of a message before it delivers it: the traces of     *)
(* others' checks are removed from its header, SPF and DKIM are checked    *)
(* and aligned with the From domain, and the domain's DMARC policy decides *)
(* between the inbox, Junk and a refusal.                                  *)
(*                                                                         *)
(* A message is its lines, each with what it begins with and whether CRLF  *)
(* or a bare LF ends it.  A domain is its labels, from the top.            *)
(***************************************************************************)
EXTENDS Lists, SequencesExt, FiniteSetsExt

CONSTANT Arrival   \* messages, what DNS and the libraries say of them, and their sender

\* Arrival's records:
\*   raw      the lines
\*   author   the domain of the From address, <<>> when it does not parse to one
\*   mailFrom the domain of MAIL FROM, <<>> when the address is empty
\*   spf      whether SPF passes for it
\*   dkim     the domains of the signatures that verify
\*   record   "none", "temp" for a lookup that fails, or the policy
Line == [is : {"from", "trace", "other", "fold", "empty"}, crlf : BOOLEAN]
ASSUME ArrivalAssumption ==
  \A m \in Arrival :
    /\ m.raw \in Seq(Line) /\ m.record \in {"none", "temp", "p=none", "p=quarantine", "p=reject"}
    /\ m.author \in Seq(STRING) /\ m.mailFrom \in Seq(STRING) /\ \A d \in m.dkim : d \in Seq(STRING)

VARIABLE inbound   \* the message, its header as it is delivered, and what became of it
authVars == <<inbound>>

First(s) == IF s = {} THEN 0 ELSE Min(s)
Blank(raw) == {i \in 2 .. Len(raw) : raw[i].is = "empty"}

-----------------------------------------------------------------------------
(* stripAuthResults.                                                       *)

\* CRLF CRLF anywhere, or else LF LF.
Boundary(raw) ==
  LET wide == {i \in Blank(raw) : raw[i].crlf /\ raw[i - 1].crlf}
  IN  IF wide # {} THEN Min(wide) ELSE First({i \in Blank(raw) : ~raw[i].crlf})

\* The line at which the field of line i begins.
FieldOf(raw, i) ==
  LET starts == {j \in 1 .. i : raw[j].is \notin {"fold", "empty"}} IN IF raw[i].is # "fold" \/ starts = {} THEN i ELSE Max(starts)

\* Mutant of IsUntrustedAuthTrace: continuation lines stay.
IsTraceLine(raw, i) == raw[i].is = "trace"

IsUntrustedAuthTrace(raw, i) == raw[FieldOf(raw, i)].is = "trace"

\* What is kept ends in CRLF, but for the last line, which the boundary ends.
StripAuthResults(raw) ==
  LET e == Boundary(raw)
      kept == InOrder({i \in 1 .. e - 1 : raw[i].is # "empty" /\ ~IsUntrustedAuthTrace(raw, i)})
      top == IF kept = <<>> THEN <<[is |-> "empty", crlf |-> raw[e].crlf]>>
             ELSE [k \in DOMAIN kept |-> [is |-> raw[kept[k]].is, crlf |-> k < Len(kept) \/ raw[e].crlf]]
  IN  IF e = 0 THEN raw ELSE top \o SubSeq(raw, e, Len(raw))

-----------------------------------------------------------------------------
(* Verify.                                                                 *)

BytesIndexHeaderEnd(raw) == First(Blank(raw))
HeaderOf(raw) == IF BytesIndexHeaderEnd(raw) = 0 THEN raw ELSE SubSeq(raw, 1, BytesIndexHeaderEnd(raw) - 1)
HeaderFieldCount(raw) == Len(SelectSeq(HeaderOf(raw), LAMBDA l : l.is = "from"))

\* Without a sender SPF is "none".
SpfPasses(m) == m.mailFrom # <<>> /\ m.spf

FromMalformed(m, raw) == HeaderFieldCount(raw) # 1 \/ m.author = <<>>

\* Equal, or one is below the other.
Aligned(a, b) == a # <<>> /\ b # <<>> /\ (IsPrefix(a, b) \/ IsPrefix(b, a))

\* Mutant of EvalDMARC: a signature counts whoever made it.
EvalDMARCUnaligned(m, raw) ==
  CASE FromMalformed(m, raw) -> "fail"
    [] ~FromMalformed(m, raw) /\ m.record \in {"none", "temp"} -> m.record
    [] OTHER -> IF (SpfPasses(m) /\ Aligned(m.mailFrom, m.author)) \/ m.dkim # {} THEN "pass" ELSE "fail"

EvalDMARC(m, raw) ==
  CASE FromMalformed(m, raw) -> "fail"
    [] ~FromMalformed(m, raw) /\ m.record \in {"none", "temp"} -> m.record
    [] OTHER ->
         IF (SpfPasses(m) /\ Aligned(m.mailFrom, m.author)) \/ \E d \in m.dkim : Aligned(d, m.author) THEN "pass" ELSE "fail"

\* VerifyVerdict and the answer of DATA.
VerifyVerdict(m, raw) ==
  LET dmarc == EvalDMARC(m, raw) IN
  CASE FromMalformed(m, raw) \/ (dmarc = "fail" /\ m.record = "p=reject") -> "550"
    [] dmarc = "temp" -> "451"
    [] ~FromMalformed(m, raw) /\ dmarc = "fail" /\ m.record = "p=quarantine" -> "junk"
    [] OTHER -> "inbox"

AuthInit == \E m \in Arrival : inbound = [msg |-> m, raw |-> m.raw, fate |-> "new"]

\* The MX's DATA.  A message that is not refused goes on with the result on top.
DataInbound(m) ==
  LET raw == StripAuthResults(m.raw) IN
  /\ inbound.fate = "new"
  /\ inbound' = [msg |-> m, raw |-> raw, fate |-> VerifyVerdict(m, raw)]

AuthNext == DataInbound(inbound.msg)

AuthSpec == AuthInit /\ [][AuthNext]_authVars

-----------------------------------------------------------------------------
\* The organisation that a domain belongs to, and who speaks for a message.
Org(d) == SubSeq(d, 1, 2)
Proven(m) == m.dkim \cup (IF SpfPasses(m) THEN {m.mailFrom} ELSE {})
Speaks(m) == \E d \in Proven(m) : Len(d) < 2 \/ Len(m.author) < 2 \/ Org(d) = Org(m.author)

\* What a domain asks for happens.  Mail that names one in its From reaches the inbox
\* under a policy of reject or quarantine only if that organisation sent or signed it
\* (or a whole top-level domain is involved), never while the policy cannot be looked
\* up, and never with an ambiguous From; and what the domain itself sent or signed is
\* not turned away.
PolicyHonoured ==
  LET m == inbound.msg
      single == HeaderFieldCount(inbound.raw) = 1 /\ m.author # <<>>
      strict == m.record \in {"p=reject", "p=quarantine"}
  IN  /\ inbound.fate = "inbox" => single /\ m.record # "temp" /\ (strict => Speaks(m))
      /\ inbound.fate = "junk" => single /\ m.record = "p=quarantine"
      /\ inbound.fate \in {"550", "junk"} /\ single => strict /\ m.author \notin Proven(m)

\* The fields of a header that are not traces, each with its continuation lines.
Folds(h, i) == {j \in i + 1 .. Len(h) : \A k \in i + 1 .. j : h[k].is = "fold"}
Fields(h) ==
  LET at == InOrder({i \in DOMAIN h : h[i].is \in {"from", "other"}})
  IN  [k \in DOMAIN at |-> [is |-> h[at[k]].is, folds |-> Cardinality(Folds(h, at[k]))]]

\* A delivered header carries no trace of checks that others claim to have made, and
\* message and header are otherwise as they came; if the message has a body and its
\* lines all end alike, which is what SMTP asks for.
TracesGone ==
  LET was == inbound.msg.raw
      now == inbound.raw
      Body(raw) == SubSeq(raw, BytesIndexHeaderEnd(raw) + 1, Len(raw))
      alike == \A i, j \in DOMAIN was : was[i].crlf = was[j].crlf
  IN  inbound.fate # "new" /\ alike /\ Blank(was) # {} /\ was[1].is # "empty" =>
        /\ \A l \in ToSet(HeaderOf(now)) : l.is # "trace"
        /\ Fields(HeaderOf(now)) = Fields(HeaderOf(was)) /\ Body(now) = Body(was)

\* What the MX says of a sender is its own finding, and it acts on it.
SenderChecked == PolicyHonoured /\ TracesGone
=============================================================================
