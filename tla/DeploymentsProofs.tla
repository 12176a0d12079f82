------------------------- MODULE DeploymentsProofs -------------------------
(***************************************************************************)
(* Proofs about Deployments, for every limit of the middleware, every row  *)
(* of a service, every text of an error and all settings: no error shows   *)
(* its text, the rendered commands mean what their builders mean and stay  *)
(* under the root, and a record says what happened to its commands.        *)
(*                                                                         *)
(* The answers are dealt with one response at a time (Proper).  The rest   *)
(* follows from one inductive invariant, Planning, and from what holds of  *)
(* texts of every length: of commands and paths in DockerCommandsProofs,   *)
(* of transcripts in TranscriptLines.                                      *)
(***************************************************************************)
EXTENDS Deployments, DockerCommandsProofs, TLAPS

-----------------------------------------------------------------------------
(* Answers.                                                                *)

(* Texts in which nothing of the text of a failure occurs: made of what    *)
(* rows and requests hold and of the program's own wording.                *)
Wording == {"authentication required", "forbidden", "not found", "invalid", "by status",
            "internal server error"}
Public == Seq(Symbols \cup Wording)

(* The errors of the handlers: what an internal one says is unknown.       *)
ApiErrors ==
    {Unauthorized, Forbidden, NotFound}
    \cup {BadRequest(text) : text \in Public} \cup {Internal(<<"secret">>)}

(* What is to be shown of a handler's response and the client's.           *)
Proper(handler, client) ==
    /\ client.status >= 400 =>
          /\ client.envelope
          /\ client.message \in Public /\ client.details \in Public
    /\ client.status = 401 <=> client.code = "unauthorized"
    /\ client.status = 403 <=> client.code = "forbidden"
    /\ client.status = 404 <=> client.code = "not_found"
    /\ client.status \in {400, 422} <=> client.code = "bad_request"
    /\ client.status = 500 <=> client.code = "internal_error"
    /\ Len(handler.message) <= BodyLimit => client.status = handler.status

LEMMA PublicTexts ==
  /\ NoText \in Public /\ \A word \in Wording : <<word>> \in Public
  /\ Seq(Symbols) \subseteq Public
  /\ \A a, b \in Public : a \o b \in Public
  /\ \A a \in Public : Len(a) \in Nat
  <1> DEFINE S == Symbols \cup Wording
  <1>1. Symbols \subseteq S /\ Wording \subseteq S
    OBVIOUS
  <1> HIDE DEF S
  <1>2. /\ <<>> \in Seq(S) /\ \A word \in S : <<word>> \in Seq(S)
        /\ Seq(Symbols) \subseteq Seq(S)
        /\ \A a, b \in Seq(S) : a \o b \in Seq(S)
        /\ \A a \in Seq(S) : Len(a) \in Nat
    BY <1>1
  <1> QED BY <1>1, <1>2 DEF NoText, Public, S

LEMMA PublicWording ==
  /\ <<"authentication required">> \in Public /\ <<"forbidden">> \in Public
  /\ <<"not found">> \in Public /\ <<"by status">> \in Public
  /\ <<"internal server error">> \in Public /\ NoText \in Public
  BY PublicTexts DEF Wording

LEMMA PublicSymbols ==
  ASSUME NEW text \in Public, NEW i \in DOMAIN text
  PROVE  text[i] # "secret"
  <1>1. "secret" \notin Symbols \cup Wording
    BY DeploymentsAssumption DEF Wording
  <1>2. \A S : text \in Seq(S) => text[i] \in S
    OBVIOUS
  <1> QED BY <1>1, <1>2 DEF Public

LEMMA ErrorKinds ==
  ASSUME NEW error \in ApiErrors
  PROVE  /\ PublicMessage(error) \in Public
         /\ \/ error.kind = "unauthorized" /\ Status(error) = 401
            \/ error.kind = "forbidden" /\ Status(error) = 403
            \/ error.kind = "not_found" /\ Status(error) = 404
            \/ error.kind = "bad_request" /\ Status(error) = 400
            \/ error.kind = "internal_error" /\ Status(error) = 500
  <1>1. /\ error.kind = "unauthorized" => Status(error) = 401
        /\ error.kind = "forbidden" => Status(error) = 403
        /\ error.kind = "not_found" => Status(error) = 404
        /\ error.kind = "bad_request" => Status(error) = 400
        /\ error.kind = "internal_error" => Status(error) = 500
    BY DEF Status
  <1>2. <<"internal server error">> \in Public
    BY PublicWording
  <1>3. ASSUME error.text \in Public
        PROVE  PublicMessage(error) \in Public
    BY <1>2, <1>3 DEF PublicMessage
  <1>4. CASE error = Unauthorized
    <2>1. error.kind = "unauthorized" /\ error.text = <<"authentication required">>
      BY <1>4 DEF Unauthorized
    <2>2. error.text \in Public
      BY <2>1, PublicWording
    <2>3. PublicMessage(error) \in Public
      BY <1>3, <2>2
    <2> QED BY <1>1, <2>1, <2>3
  <1>5. CASE error = Forbidden
    <2>1. error.kind = "forbidden" /\ error.text = <<"forbidden">>
      BY <1>5 DEF Forbidden
    <2>2. error.text \in Public
      BY <2>1, PublicWording
    <2>3. PublicMessage(error) \in Public
      BY <1>3, <2>2
    <2> QED BY <1>1, <2>1, <2>3
  <1>6. CASE error = NotFound
    <2>1. error.kind = "not_found" /\ error.text = <<"not found">>
      BY <1>6 DEF NotFound
    <2>2. error.text \in Public
      BY <2>1, PublicWording
    <2>3. PublicMessage(error) \in Public
      BY <1>3, <2>2
    <2> QED BY <1>1, <2>1, <2>3
  <1>7. ASSUME NEW text \in Public, error = BadRequest(text)
        PROVE  error.kind = "bad_request" /\ error.text \in Public
    BY <1>7 DEF BadRequest
  <1>8. CASE error = Internal(<<"secret">>)
    <2>1. error.kind = "internal_error"
      BY <1>8 DEF Internal
    <2> QED BY <1>1, <1>2, <2>1 DEF PublicMessage
  <1> QED BY <1>1, <1>3, <1>4, <1>5, <1>6, <1>7, <1>8 DEF ApiErrors

(* The answer to a body beyond the limit, whatever the handler's was.      *)
TooLarge == IntoResponse(Internal(<<"failed to serialize">>))

LEMMA TooLargeProper ==
  ASSUME NEW handler, ~(Len(handler.message) <= BodyLimit)
  PROVE  Proper(handler, TooLarge)
  <1> DEFINE error == Internal(<<"failed to serialize">>)
  <1>1. error.kind = "internal_error"
    BY DEF Internal
  <1> HIDE DEF error
  <1>2. Status(error) = 500 /\ PublicMessage(error) = <<"internal server error">>
    BY <1>1 DEF Status, PublicMessage
  <1>3. /\ TooLarge.status = 500 /\ TooLarge.envelope = TRUE /\ TooLarge.code = "internal_error"
        /\ TooLarge.message = <<"internal server error">> /\ TooLarge.details = NoText
    BY <1>1, <1>2 DEF TooLarge, IntoResponse, error
  <1>4. TooLarge.message \in Public /\ TooLarge.details \in Public
    BY <1>3, PublicWording
  <1>5. TooLarge.status = 500 /\ TooLarge.envelope = TRUE /\ TooLarge.code = "internal_error"
    BY <1>3
  <1> QED BY <1>4, <1>5 DEF Proper

(* The answer to an error of a handler.                                    *)
LEMMA ErrorAnswered ==
  ASSUME NEW error \in ApiErrors
  PROVE  Proper(IntoResponse(error), NormalizeErrorResponse(IntoResponse(error)))
  <1> DEFINE h == IntoResponse(error)
  <1>1. /\ h.status = Status(error) /\ h.envelope = TRUE /\ h.code = error.kind
        /\ h.message = PublicMessage(error) /\ h.details = NoText
    BY DEF IntoResponse
  <1> HIDE DEF h
  <1>2. ~(h.status < 400) /\ Len(h.message) \in Nat
    BY <1>1, ErrorKinds, PublicTexts
  <1>3. NormalizeErrorResponse(h) = IF Len(h.message) > BodyLimit THEN TooLarge ELSE h
    BY <1>1, <1>2 DEF NormalizeErrorResponse, TooLarge
  <1>4. CASE Len(h.message) > BodyLimit
    <2>1. ~(Len(h.message) <= BodyLimit)
      BY <1>2, <1>4, DeploymentsAssumption
    <2> QED BY <1>3, <1>4, <2>1, TooLargeProper DEF h
  <1>5. CASE ~(Len(h.message) > BodyLimit)
    <2>1. h.message \in Public /\ h.details \in Public
      BY <1>1, ErrorKinds, PublicTexts
    <2>2. \/ h.status = 401 /\ h.code = "unauthorized"
          \/ h.status = 403 /\ h.code = "forbidden"
          \/ h.status = 404 /\ h.code = "not_found"
          \/ h.status \in {400, 422} /\ h.code = "bad_request"
          \/ h.status = 500 /\ h.code = "internal_error"
      BY <1>1, ErrorKinds
    <2>3. h.envelope = TRUE
      BY <1>1
    <2>4. Proper(h, h)
      BY <2>1, <2>2, <2>3 DEF Proper
    <2> QED BY <1>3, <1>5, <2>4 DEF h
  <1> QED BY <1>4, <1>5

(* The answer to a request that axum itself rejects.                       *)
LEMMA RejectionAnswered ==
  ASSUME NEW x \in Rejections
  PROVE  Proper(PlainError(x.status, x.text),
                NormalizeErrorResponse(PlainError(x.status, x.text)))
  <1> DEFINE h == PlainError(x.status, x.text)
             c == FromStatus(x.status, x.text)
  <1>1. h.status = x.status /\ h.envelope = FALSE /\ h.message = x.text
    BY DEF PlainError
  <1>2. /\ x.status \in {400, 404, 405, 413, 415, 422, 500} /\ Len(x.text) \in Nat
        /\ x.status # 500 => x.text \in Public
    <2>1. x \in [status: {400, 404, 405, 413, 415, 422}, text: Seq(Symbols)]
             => x.status \in {400, 404, 405, 413, 415, 422} /\ x.text \in Seq(Symbols)
      OBVIOUS
    <2>2. x \in [status: {500}, text: Seq(Symbols \cup {"secret"})]
             => x.status = 500 /\ x.text \in Seq(Symbols \cup {"secret"})
      OBVIOUS
    <2>3. \A S : x.text \in Seq(S) => Len(x.text) \in Nat
      OBVIOUS
    <2> QED BY <2>1, <2>2, <2>3, DeploymentsAssumption, PublicTexts
  <1>3. c.status = x.status /\ c.envelope = TRUE /\ c.message = <<"by status">>
    BY DEF FromStatus
  <1>4. x.status = 500 => c.details = NoText
    BY DEF FromStatus
  <1>5. x.status \in {400, 404, 405, 413, 415, 422} => c.details = x.text
    BY DEF FromStatus
  <1>6. \/ x.status \in {400, 422} /\ c.code = "bad_request"
        \/ x.status = 404 /\ c.code = "not_found"
        \/ x.status = 405 /\ c.code = "method_not_allowed"
        \/ x.status \in {413, 415} /\ c.code = "request_error"
        \/ x.status = 500 /\ c.code = "internal_error"
    BY <1>2 DEF FromStatus
  <1> HIDE DEF h, c
  <1>7. NormalizeErrorResponse(h) = IF Len(h.message) > BodyLimit THEN TooLarge ELSE c
    <2>1. ~(h.status < 400)
      BY <1>1, <1>2
    <2> QED BY <1>1, <2>1 DEF NormalizeErrorResponse, TooLarge, c
  <1>8. CASE Len(h.message) > BodyLimit
    <2>1. ~(Len(h.message) <= BodyLimit)
      BY <1>1, <1>2, <1>8, DeploymentsAssumption
    <2> QED BY <1>7, <1>8, <2>1, TooLargeProper DEF h
  <1>9. CASE ~(Len(h.message) > BodyLimit)
    <2>1. c.message \in Public /\ c.details \in Public
      <3>1. c.message \in Public
        BY <1>3, PublicWording
      <3>2. CASE x.status = 500
        <4>1. c.details = NoText
          BY <1>4, <3>2
        <4>2. NoText \in Public
          BY PublicWording
        <4> QED BY <3>1, <4>1, <4>2
      <3>3. CASE x.status # 500
        <4>1. x.status \in {400, 404, 405, 413, 415, 422}
          BY <1>2, <3>3
        <4> QED BY <1>2, <1>5, <3>1, <3>3, <4>1
      <3> QED BY <3>2, <3>3
    <2>2. c.envelope = TRUE /\ c.status = h.status /\ c.status = x.status
      BY <1>1, <1>3
    <2>3. Proper(h, c)
      <3>1. \/ c.status \in {400, 422} /\ c.code = "bad_request"
            \/ c.status = 404 /\ c.code = "not_found"
            \/ c.status = 405 /\ c.code = "method_not_allowed"
            \/ c.status \in {413, 415} /\ c.code = "request_error"
            \/ c.status = 500 /\ c.code = "internal_error"
        BY <1>6, <2>2
      <3>2. Len(h.message) <= BodyLimit => c.status = h.status
        BY <2>2
      <3>3. c.envelope = TRUE
        BY <2>2
      <3> QED BY <2>1, <3>1, <3>2, <3>3 DEF Proper
    <2> QED BY <1>7, <1>9, <2>3 DEF h
  <1> QED BY <1>8, <1>9

(* Validation quotes the name or the image of the service.                 *)
LEMMA ComplaintIsError ==
  ASSUME NEW s \in Services, ~Deployable(s)
  PROVE  Complaint(s) \in ApiErrors
  <1> DEFINE value == IF ValidateServiceName(s.name) THEN s.image ELSE s.name
  <1>1. value \in Public
    BY DeploymentsAssumption, PublicTexts DEF Deployable, ValidImage
  <1> HIDE DEF value
  <1>2. <<"invalid">> \o value \in Public
    BY <1>1, PublicTexts DEF Wording
  <1> QED BY <1>2 DEF Complaint, ApiErrors, value

(* Every response is proper when it leaves.                                *)
LEMMA AnswerStep ==
  ASSUME [Next]_vars
  PROVE  sent' = sent \/ Proper(sent'.handler, sent'.client)
  <1>1. ASSUME NEW response, Respond(response), Proper(response, NormalizeErrorResponse(response))
        PROVE  Proper(sent'.handler, sent'.client)
    BY <1>1 DEF Respond
  <1>2. ASSUME NEW error \in ApiErrors, Respond(IntoResponse(error))
        PROVE  Proper(sent'.handler, sent'.client)
    BY <1>1, <1>2, ErrorAnswered
  <1>3. ASSUME NEW s \in Services, RefuseDeploy(s)
        PROVE  Proper(sent'.handler, sent'.client)
    BY <1>2, <1>3, ComplaintIsError DEF RefuseDeploy
  <1>4. {Unauthorized, Forbidden, NotFound, Internal(<<"secret">>)} \subseteq ApiErrors
    BY DEF ApiErrors
  <1>5. CASE TurnAway
    BY <1>1, <1>2, <1>4, <1>5, RejectionAnswered DEF TurnAway
  <1>6. CASE Fail
    BY <1>2, <1>4, <1>6 DEF Fail
  <1>7. CASE Record
    <2>1. Proper(Ok, NormalizeErrorResponse(Ok))
      BY DEF Proper, NormalizeErrorResponse, Ok
    <2> QED BY <1>1, <1>7, <2>1 DEF Record
  <1> QED BY <1>3, <1>5, <1>6, <1>7
          DEF Next, TriggerDeploy, RestartService, PreviewRun, RemoteRun, vars

LEMMA AnswersProper == Spec => []Proper(sent.handler, sent.client)
  <1>1. Init => Proper(sent.handler, sent.client)
    BY DEF Init, Proper, Ok
  <1>2. ASSUME Proper(sent.handler, sent.client), [Next]_vars
        PROVE  Proper(sent.handler, sent.client)'
    BY <1>2, AnswerStep
  <1> QED BY <1>1, <1>2, PTL DEF Spec

(* Whatever fails, and whatever the error says, its text does not reach    *)
(* the client, at every limit of the middleware and for every row: the     *)
(* answer is an ErrorResponse without it (public_message, from_status and  *)
(* normalize_error_response).                                              *)
THEOREM InternalsHidden == Spec => []InternalHidden
  <1>1. Proper(sent.handler, sent.client) => InternalHidden
    BY PublicSymbols DEF Proper, InternalHidden
  <1> QED BY <1>1, AnswersProper, PTL

(* The status and the code of every answer say the same, and the status is *)
(* the handler's own unless its body is beyond the limit                   *)
(* (normalize_error_response).                                             *)
THEOREM StatusesAgree == Spec => []StatusAndCodeAgree
  <1>1. Proper(sent.handler, sent.client) => StatusAndCodeAgree
    BY DEF Proper, StatusAndCodeAgree
  <1> QED BY <1>1, AnswersProper, PTL

-----------------------------------------------------------------------------
(* Transcripts.                                                            *)

(* The lines of a transcript whose texts are from a set.                   *)
Kinds == {"command", "captured", "exit", "preview"}
Lines(X) == [kind: Kinds, text: X]

(* One more line is found when it is of the kind.                          *)
LEMMA LinesAppend ==
  ASSUME NEW X, NEW output \in Seq(Lines(X)), NEW line \in Lines(X), NEW kind
  PROVE  /\ LinesOf(output, kind) \in Seq(Lines(X))
         /\ LinesOf(Append(output, line), kind)
              = LinesOf(output, kind) \o (IF line.kind = kind THEN <<line>> ELSE <<>>)
  <1> DEFINE D == Lines(X)
             T == Seq(D)
             Kept(l) == IF l.kind = kind THEN <<l>> ELSE <<>>
             h == [i \in Nat |-> [l \in D |-> Kept(l)]]
             longer == Append(output, line)
             e == Kept(line)
  <1>1. \A l \in D : Kept(l) \in T
    <2> HIDE DEF D
    <2> QED OBVIOUS
  <1>2. longer \in Seq(D) /\ Len(output) + 1 \in Nat /\ line \in D /\ output \in Seq(D)
    OBVIOUS
  <1> HIDE DEF D, T
  <1>3. ASSUME NEW s \in Seq(D)
        PROVE  LinesOf(s, kind) = FlattenSeq(Mapped(h, s))
    <2>1. \A i \in DOMAIN s : i \in Nat /\ s[i] \in D
      OBVIOUS
    <2>2. [i \in DOMAIN s |-> Kept(s[i])] = Mapped(h, s)
      <3> HIDE DEF Kept
      <3> QED BY <2>1 DEF Mapped
    <2> QED BY <2>2 DEF LinesOf
  <1> HIDE DEF Kept
  <1>4. h \in Tables(D, T) /\ h[Len(output) + 1][line] = e
    <2> DEFINE k == Len(output) + 1
    <2>1. k \in Nat
      BY <1>2
    <2> HIDE DEF k
    <2>2. h[k][line] = Kept(line)
      BY <1>2, <2>1
    <2>3. h \in Tables(D, T)
      BY <1>1 DEF Tables
    <2> HIDE DEF h
    <2> QED BY <2>2, <2>3 DEF k
  <1> HIDE DEF h, e
  <1>5. /\ Mapped(h, output) \in Seq(T)
        /\ Mapped(h, longer) = Append(Mapped(h, output), e) /\ e \in T
    BY <1>2, <1>4, MappedAppend
  <1> HIDE DEF longer
  <1>6. /\ LinesOf(output, kind) = FlattenSeq(Mapped(h, output))
        /\ LinesOf(longer, kind) = FlattenSeq(Mapped(h, longer))
    BY <1>2, <1>3
  <1> DEFINE m == Mapped(h, output)
  <1> HIDE DEF m
  <1>7. m \in Seq(Seq(D)) /\ e \in Seq(D)
    BY <1>5 DEF T, m
  <1>8. FlattenSeq(m) \in Seq(D) /\ FlattenSeq(Append(m, e)) = FlattenSeq(m) \o e
    BY <1>7, FlattenType, FlattenAppend
  <1> QED BY <1>5, <1>6, <1>8 DEF m, e, longer, D, Kept

LEMMA LinesEmpty ==
  ASSUME NEW kind
  PROVE  LinesOf(<<>>, kind) = <<>>
  BY FlattenEmpty DEF LinesOf

LEMMA LinesType ==
  ASSUME NEW X, NEW output \in Seq(Lines(X)), NEW kind
  PROVE  LinesOf(output, kind) \in Seq(Lines(X))
  <1>1. CASE output = <<>>
    <2>1. LinesOf(output, kind) = <<>>
      BY <1>1, LinesEmpty
    <2>2. <<>> \in Seq(Lines(X))
      OBVIOUS
    <2> QED BY <2>1, <2>2
  <1>2. CASE output # <<>>
    <2> DEFINE D == Lines(X)
    <2> HIDE DEF D
    <2>1. output \in Seq(D)
      BY DEF D
    <2>2. output[1] \in D
      BY <1>2, <2>1
    <2>3. PICK line : line \in D
      BY <2>2
    <2> QED BY <2>3, LinesAppend DEF D
  <1> QED BY <1>1, <1>2

LEMMA LinesOne ==
  ASSUME NEW X, NEW line \in Lines(X), NEW kind
  PROVE  LinesOf(<<line>>, kind) = IF line.kind = kind THEN <<line>> ELSE <<>>
  <1> DEFINE none == <<>>
             kept == IF line.kind = kind THEN <<line>> ELSE <<>>
  <1>1. none \in Seq(Lines(X)) /\ <<line>> = Append(none, line) /\ LinesOf(none, kind) = <<>>
    BY LinesEmpty
  <1>2. <<>> \o kept = kept
    OBVIOUS
  <1> HIDE DEF none
  <1>3. LinesOf(Append(none, line), kind) = LinesOf(none, kind) \o kept
    BY <1>1, LinesAppend
  <1> QED BY <1>1, <1>2, <1>3

(* The lines of two transcripts are found one after the other.             *)
LEMMA LinesConcat ==
  ASSUME NEW X, NEW a \in Seq(Lines(X)), NEW b \in Seq(Lines(X)), NEW kind
  PROVE  LinesOf(a \o b, kind) = LinesOf(a, kind) \o LinesOf(b, kind)
  <1> DEFINE D == Lines(X)
             I == {t \in Seq(D) : LinesOf(a \o t, kind) = LinesOf(a, kind) \o LinesOf(t, kind)}
  <1>1. <<>> \in I
    <2>1. a \o <<>> = a /\ <<>> \in Seq(D)
      OBVIOUS
    <2> DEFINE x == LinesOf(a, kind)
    <2>2. x \in Seq(D)
      BY LinesType
    <2> HIDE DEF x
    <2>3. x \o <<>> = x
      BY <2>2
    <2> QED BY <2>1, <2>3, LinesEmpty DEF x
  <1>2. ASSUME NEW t \in I, NEW l \in D
        PROVE  Append(t, l) \in I
    <2> DEFINE k == IF l.kind = kind THEN <<l>> ELSE <<>>
               at == a \o t
               x == LinesOf(a, kind)
               y == LinesOf(t, kind)
    <2>1. t \in Seq(D) /\ Append(t, l) \in Seq(D) /\ at \in Seq(D) /\ LinesOf(at, kind) = x \o y
      <3> HIDE DEF D
      <3>1. a \in Seq(D)
        BY DEF D
      <3> QED BY <3>1
    <2>2. a \o Append(t, l) = Append(at, l)
      BY <2>1
    <2> HIDE DEF at
    <2>3. LinesOf(Append(at, l), kind) = LinesOf(at, kind) \o k
      BY <2>1, LinesAppend
    <2>4. LinesOf(Append(t, l), kind) = y \o k /\ x \in Seq(D) /\ y \in Seq(D)
      BY <2>1, LinesAppend
    <2>5. k \in Seq(D)
      OBVIOUS
    <2> HIDE DEF x, y, k, D
    <2>6. x \o (y \o k) = (x \o y) \o k
      <3>1. x \in Seq(D) /\ y \in Seq(D) /\ k \in Seq(D)
        BY <2>4, <2>5
      <3> HIDE DEF I
      <3> QED BY <3>1, ConcatAssociative, SMTT(40)
    <2>7. LinesOf(a \o Append(t, l), kind) = x \o LinesOf(Append(t, l), kind)
      BY <2>1, <2>2, <2>3, <2>4, <2>6
    <2> QED BY <2>1, <2>7 DEF x
  <1>3. \A t \in Seq(D) : t \in I
    <2>1. I \in SUBSET Seq(D)
      OBVIOUS
    <2> HIDE DEF I, D
    <2> QED BY <1>1, <1>2, <2>1, SeqInduct
  <1> QED BY <1>3

(* What the transcript says of one outcome.                                *)
Block(executed, o) ==
    <<Line("command", o.command)>>
    \o (IF o.printed THEN <<Line("captured", NoText)>> ELSE <<>>)
    \o (IF executed THEN <<Line("exit", <<o.exit_code>>)>> ELSE <<>>)

(* The outcomes of commands whose texts are from a set.                    *)
Outcomes(X) == [command: X, exit_code: {0, 1}, printed: BOOLEAN]
Blocks(executed, os) == [i \in DOMAIN os |-> Block(executed, os[i])]

(* The lines of the commands, and of their exit codes.                     *)
Ran(os) == [i \in DOMAIN os |-> Line("command", os[i].command)]
Exits(executed, os) ==
    IF executed THEN [i \in DOMAIN os |-> Line("exit", <<os[i].exit_code>>)] ELSE <<>>

(* A block holds its command, and its exit code when it ran.               *)
LEMMA BlockLines ==
  ASSUME NEW X, NoText \in X, << 0 >> \in X, << 1 >> \in X, NEW executed \in BOOLEAN,
         NEW o \in Outcomes(X)
  PROVE  /\ Block(executed, o) \in Seq(Lines(X))
         /\ LinesOf(Block(executed, o), "command") = <<Line("command", o.command)>>
         /\ LinesOf(Block(executed, o), "exit")
               = IF executed THEN <<Line("exit", <<o.exit_code>>)>> ELSE <<>>
  <1> DEFINE D == Lines(X)
             c == Line("command", o.command)
             p == Line("captured", NoText)
             e == Line("exit", <<o.exit_code>>)
             a == <<c>>
             b == IF o.printed THEN <<p>> ELSE <<>>
             d == IF executed THEN <<e>> ELSE <<>>
             ab == a \o b
             Of(s, kind) == LinesOf(s, kind)
  <1>1. o.command \in X /\ o.exit_code \in {0, 1} /\ o.printed \in BOOLEAN
    BY DEF Outcomes
  <1>2. /\ c \in D /\ p \in D /\ e \in D
        /\ c.kind = "command" /\ p.kind = "captured" /\ e.kind = "exit"
    <2>1. <<o.exit_code>> \in X
      BY <1>1
    <2> QED BY <1>1, <2>1 DEF Line, Lines, Kinds
  <1> HIDE DEF c, p, e
  <1>3. /\ LinesOf(<<c>>, "command") = <<c>> /\ LinesOf(<<c>>, "exit") = <<>>
        /\ LinesOf(<<p>>, "command") = <<>> /\ LinesOf(<<p>>, "exit") = <<>>
        /\ LinesOf(<<e>>, "command") = <<>> /\ LinesOf(<<e>>, "exit") = <<e>>
    BY <1>2, LinesOne
  <1>4. /\ LinesOf(a, "command") = a /\ LinesOf(a, "exit") = <<>>
        /\ LinesOf(b, "command") = <<>> /\ LinesOf(b, "exit") = <<>>
        /\ LinesOf(d, "command") = <<>> /\ LinesOf(d, "exit") = d
    BY <1>1, <1>3, LinesEmpty
  <1>5. a \in Seq(D) /\ b \in Seq(D) /\ d \in Seq(D)
    <2> HIDE DEF D
    <2> QED BY <1>2
  <1>6. Block(executed, o) = ab \o d
    BY DEF Block, c, p, e
  <1> HIDE DEF a, b, d, D
  <1>7. /\ ab \in Seq(D) /\ ab \o d \in Seq(D)
        /\ a \o <<>> = a /\ <<>> \o <<>> = <<>> /\ <<>> \o d = d
    BY <1>5
  <1>8. LinesOf(a \o b, "command") = a /\ LinesOf(a \o b, "exit") = <<>>
    <2>1. a \in Seq(Lines(X)) /\ b \in Seq(Lines(X))
      BY <1>5 DEF D
    <2>2. /\ LinesOf(a \o b, "command") = LinesOf(a, "command") \o LinesOf(b, "command")
          /\ LinesOf(a \o b, "exit") = LinesOf(a, "exit") \o LinesOf(b, "exit")
      BY <2>1, LinesConcat, SMTT(40)
    <2> QED BY <1>4, <1>7, <2>2
  <1> HIDE DEF ab
  <1>9. LinesOf(ab \o d, "command") = a /\ LinesOf(ab \o d, "exit") = d
    <2>1. LinesOf(ab, "command") = a /\ LinesOf(ab, "exit") = <<>>
      BY <1>8 DEF ab
    <2>2. ab \in Seq(Lines(X)) /\ d \in Seq(Lines(X))
      BY <1>5, <1>7 DEF D
    <2>3. /\ LinesOf(ab \o d, "command") = LinesOf(ab, "command") \o LinesOf(d, "command")
          /\ LinesOf(ab \o d, "exit") = LinesOf(ab, "exit") \o LinesOf(d, "exit")
      BY <2>2, LinesConcat, SMTT(40)
    <2> QED BY <1>4, <1>7, <2>1, <2>3
  <1> QED BY <1>6, <1>7, <1>9 DEF a, d, c, e, D

(* Adding an outcome adds its block, its command and its exit code.        *)
LEMMA OutcomesAppend ==
  ASSUME NEW X, NoText \in X, << 0 >> \in X, << 1 >> \in X, NEW executed \in BOOLEAN,
         NEW os \in Seq(Outcomes(X)), NEW o \in Outcomes(X)
  PROVE  /\ Blocks(executed, os) \in Seq(Seq(Lines(X)))
         /\ Blocks(executed, Append(os, o)) = Append(Blocks(executed, os), Block(executed, o))
         /\ Ran(os) \in Seq(Lines(X))
         /\ Ran(Append(os, o)) = Append(Ran(os), Line("command", o.command))
         /\ Exits(executed, os) \in Seq(Lines(X))
         /\ Exits(executed, Append(os, o))
               = Exits(executed, os)
                 \o (IF executed THEN <<Line("exit", <<o.exit_code>>)>> ELSE <<>>)
  <1> DEFINE O == Outcomes(X)
             D == Lines(X)
             T == Seq(D)
             k == Len(os) + 1
             longer == Append(os, o)
             c == Line("command", o.command)
             e == Line("exit", <<o.exit_code>>)
             hb == [i \in Nat |-> [x \in O |-> Block(executed, x)]]
             hr == [i \in Nat |-> [x \in O |-> Line("command", x.command)]]
             he == [i \in Nat |-> [x \in O |-> Line("exit", <<x.exit_code>>)]]
  <1>1. os \in Seq(O) /\ o \in O /\ longer \in Seq(O) /\ k \in Nat
    OBVIOUS
  <1>2. \A x \in O : Block(executed, x) \in T
    BY BlockLines
  <1>3. \A x \in O : Line("command", x.command) \in D /\ Line("exit", <<x.exit_code>>) \in D
    <2>1. \A x \in O : x.command \in X /\ <<x.exit_code>> \in X
      BY DEF Outcomes
    <2> QED BY <2>1 DEF Line, Lines, Kinds
  <1> HIDE DEF O, D, T, k, longer
  <1>4. hb \in Tables(O, T) /\ hr \in Tables(O, D) /\ he \in Tables(O, D)
    BY <1>2, <1>3 DEF Tables
  <1>5. hb[k][o] = Block(executed, o) /\ hr[k][o] = c /\ he[k][o] = e
    BY <1>1
  <1>6. ASSUME NEW s \in Seq(O)
        PROVE  /\ Blocks(executed, s) = Mapped(hb, s) /\ Ran(s) = Mapped(hr, s)
               /\ Exits(executed, s) = IF executed THEN Mapped(he, s) ELSE <<>>
    <2>1. \A i \in DOMAIN s : i \in Nat /\ s[i] \in O
      OBVIOUS
    <2>2. [i \in DOMAIN s |-> Block(executed, s[i])] = Mapped(hb, s)
      BY <2>1 DEF Mapped
    <2>3. [i \in DOMAIN s |-> Line("command", s[i].command)] = Mapped(hr, s)
      BY <2>1 DEF Mapped
    <2>4. [i \in DOMAIN s |-> Line("exit", <<s[i].exit_code>>)] = Mapped(he, s)
      BY <2>1 DEF Mapped
    <2> HIDE DEF hb, hr, he
    <2> QED BY <2>2, <2>3, <2>4 DEF Blocks, Ran, Exits
  <1> HIDE DEF hb, hr, he, c, e
  <1>7. /\ Mapped(hb, os) \in Seq(T) /\ Mapped(hr, os) \in Seq(D) /\ Mapped(he, os) \in Seq(D)
        /\ Mapped(hb, Append(os, o)) = Append(Mapped(hb, os), hb[Len(os) + 1][o])
        /\ Mapped(hr, Append(os, o)) = Append(Mapped(hr, os), hr[Len(os) + 1][o])
        /\ Mapped(he, Append(os, o)) = Append(Mapped(he, os), he[Len(os) + 1][o])
        /\ he[Len(os) + 1][o] \in D
    BY <1>1, <1>4, MappedAppend
  <1>8. /\ Blocks(executed, os) \in Seq(T)
        /\ Blocks(executed, longer) = Append(Blocks(executed, os), Block(executed, o))
        /\ Ran(os) \in Seq(D) /\ Ran(longer) = Append(Ran(os), c)
    BY <1>1, <1>5, <1>6, <1>7 DEF k, longer
  <1>9. Exits(executed, os) \in Seq(D)
    <2>1. <<>> \in Seq(D)
      OBVIOUS
    <2> QED BY <1>1, <1>6, <1>7, <2>1
  <1>10. Exits(executed, longer) = Exits(executed, os) \o (IF executed THEN <<e>> ELSE <<>>)
    <2> DEFINE m == Mapped(he, os)
    <2>1. m \in Seq(D) /\ e \in D /\ Mapped(he, longer) = Append(m, e)
      BY <1>5, <1>7 DEF k, longer
    <2> HIDE DEF m
    <2>2. Append(m, e) = m \o <<e>> /\ <<>> \o <<>> = <<>>
      BY <2>1
    <2> QED BY <1>1, <1>6, <2>1, <2>2 DEF m
  <1> QED BY <1>8, <1>9, <1>10 DEF longer, c, e, D, T

(* A transcript holds the commands, and the exit codes of those that ran,  *)
(* in their order.                                                         *)
LEMMA TranscriptLines ==
  ASSUME NEW X, NoText \in X, << 0 >> \in X, << 1 >> \in X, NEW executed \in BOOLEAN,
         NEW os \in Seq(Outcomes(X))
  PROVE  /\ FlattenSeq(Blocks(executed, os)) \in Seq(Lines(X))
         /\ LinesOf(FlattenSeq(Blocks(executed, os)), "command") = Ran(os)
         /\ LinesOf(FlattenSeq(Blocks(executed, os)), "exit") = Exits(executed, os)
  <1> DEFINE O == Outcomes(X)
             D == Lines(X)
             Out(s) == FlattenSeq(Blocks(executed, s))
             Good(s) == /\ Out(s) \in Seq(D) /\ LinesOf(Out(s), "command") = Ran(s)
                        /\ LinesOf(Out(s), "exit") = Exits(executed, s)
             I == {s \in Seq(O) : Good(s)}
  <1>1. <<>> \in I
    <2>1. Blocks(executed, <<>>) = <<>> /\ Ran(<<>>) = <<>> /\ Exits(executed, <<>>) = <<>>
      BY DEF Blocks, Ran, Exits
    <2>2. Out(<<>>) = <<>>
      BY <2>1, FlattenEmpty
    <2>3. <<>> \in Seq(D) /\ <<>> \in Seq(O)
      OBVIOUS
    <2> HIDE DEF D
    <2>4. Good(<<>>)
      BY <2>1, <2>2, <2>3, LinesEmpty
    <2> HIDE DEF Good, O
    <2> QED BY <2>3, <2>4
  <1>2. ASSUME NEW s \in I, NEW o \in O
        PROVE  Append(s, o) \in I
    <2> DEFINE longer == Append(s, o)
               f == Out(s)
               b == Block(executed, o)
               c == Line("command", o.command)
               x == IF executed THEN <<Line("exit", <<o.exit_code>>)>> ELSE <<>>
    <2>1. s \in Seq(O) /\ longer \in Seq(O) /\ Good(s)
      <3> HIDE DEF Good, O
      <3> QED OBVIOUS
    <2>2. /\ Blocks(executed, s) \in Seq(Seq(D))
          /\ Blocks(executed, longer) = Append(Blocks(executed, s), b)
          /\ Ran(s) \in Seq(D) /\ Ran(longer) = Append(Ran(s), c)
          /\ Exits(executed, longer) = Exits(executed, s) \o x
      BY <2>1, OutcomesAppend
    <2>3. b \in Seq(D) /\ LinesOf(b, "command") = <<c>> /\ LinesOf(b, "exit") = x
      BY BlockLines
    <2> HIDE DEF b, c, x, longer
    <2>4. Out(longer) = f \o b
      <3> DEFINE bs == Blocks(executed, s)
      <3>1. bs \in Seq(Seq(D))
        BY <2>2
      <3> HIDE DEF bs, D
      <3>2. FlattenSeq(Append(bs, b)) = FlattenSeq(bs) \o b
        BY <2>3, <3>1, FlattenAppend
      <3> QED BY <2>2, <3>2 DEF bs
    <2>5. /\ f \in Seq(D) /\ LinesOf(f, "command") = Ran(s)
          /\ LinesOf(f, "exit") = Exits(executed, s)
      BY <2>1
    <2> HIDE DEF f
    <2>6. /\ f \o b \in Seq(D)
          /\ LinesOf(f \o b, "command") = LinesOf(f, "command") \o LinesOf(b, "command")
          /\ LinesOf(f \o b, "exit") = LinesOf(f, "exit") \o LinesOf(b, "exit")
      <3>1. f \o b \in Seq(D)
        <4> HIDE DEF D
        <4> QED BY <2>3, <2>5
      <3>2. f \in Seq(Lines(X)) /\ b \in Seq(Lines(X))
        BY <2>3, <2>5
      <3> HIDE DEF I
      <3>3. /\ LinesOf(f \o b, "command") = LinesOf(f, "command") \o LinesOf(b, "command")
            /\ LinesOf(f \o b, "exit") = LinesOf(f, "exit") \o LinesOf(b, "exit")
        BY <3>2, LinesConcat, SMTT(40)
      <3> QED BY <3>1, <3>3
    <2>7. Ran(s) \o <<c>> = Append(Ran(s), c)
      <3> DEFINE r == Ran(s)
      <3>1. r \in Seq(D)
        BY <2>2
      <3>2. c \in D
        BY BlockLines, <2>1 DEF c, Line, Lines, Kinds, Outcomes
      <3> HIDE DEF r, D
      <3>3. r \o <<c>> = Append(r, c)
        BY <3>1, <3>2
      <3> QED BY <3>3 DEF r
    <2>8. Good(longer)
      <3> HIDE DEF D
      <3> QED BY <2>2, <2>3, <2>4, <2>5, <2>6, <2>7
    <2> HIDE DEF Good, O
    <2> QED BY <2>1, <2>8 DEF longer
  <1>3. \A s \in Seq(O) : s \in I
    <2> HIDE DEF Good, O
    <2>1. I \in SUBSET Seq(O)
      OBVIOUS
    <2> HIDE DEF I
    <2> QED BY <1>1, <1>2, <2>1, SeqInduct
  <1>4. Good(os)
    <2> HIDE DEF Good, O
    <2> QED BY <1>3 DEF O
  <1> QED BY <1>4

-----------------------------------------------------------------------------
(* Records.                                                                *)

(* What the texts of commands and transcripts are made of.                 *)
AllSymbols == Symbols \cup Signs \cup CommandWords \cup NameWords
Commands == Seq(Seq(Complete(AllSymbols)))
LineTexts == Seq(AllSymbols) \cup {<< 0 >>, << 1 >>}

LEMMA RenderType ==
  ASSUME NEW S, Signs \subseteq S, NEW command \in Seq(Complete(S))
  PROVE  Render(command) \in Seq(S)
  <1>1. CASE command = <<>>
    <2>1. Render(command) = <<>>
      BY <1>1, FlattenEmpty DEF Render
    <2>2. <<>> \in Seq(S)
      OBVIOUS
    <2> QED BY <2>1, <2>2
  <1>2. CASE command # <<>>
    <2> DEFINE D == Complete(S)
    <2> HIDE DEF D
    <2>1. command \in Seq(D)
      BY DEF D
    <2>2. command[1] \in D
      BY <1>2, <2>1
    <2>3. PICK token : token \in D
      BY <2>2
    <2> QED BY <2>3, RenderAppend DEF D
  <1> QED BY <1>1, <1>2

(* What an executor may report of the commands it was handed.              *)
Faithful(r, planned) ==
    /\ r.executed \in BOOLEAN /\ r.success \in BOOLEAN
    /\ r.outcomes \in Seq(Outcomes(LineTexts)) /\ Len(r.outcomes) <= Len(planned)
    /\ \A i \in 1 .. Len(r.outcomes) : r.outcomes[i].command = Render(planned[i])
    /\ r.executed = TRUE => Len(r.outcomes) >= 1
    /\ r.executed = TRUE /\ r.success = TRUE =>
          /\ Len(r.outcomes) = Len(planned)
          /\ \A i \in 1 .. Len(r.outcomes) : r.outcomes[i].exit_code = 0
    /\ r.executed = TRUE /\ r.success = FALSE => r.outcomes[Len(r.outcomes)].exit_code = 1

(* The transcript of a result, with the note that closes a preview.        *)
LEMMA OutputLines ==
  ASSUME NEW planned, NEW r, Faithful(r, planned)
  PROVE  /\ ToOutput(r) \in Seq(Lines(LineTexts))
         /\ LinesOf(ToOutput(r), "command") = Ran(r.outcomes)
         /\ LinesOf(ToOutput(r), "exit") = Exits(r.executed, r.outcomes)
  <1> DEFINE X == LineTexts
             D == Lines(X)
             os == r.outcomes
             x == r.executed
             out == FlattenSeq(Blocks(x, os))
             p == Line("preview", NoText)
             tail == IF x THEN <<>> ELSE <<p>>
  <1>1. NoText \in X /\ << 0 >> \in X /\ << 1 >> \in X
    BY DEF LineTexts, NoText
  <1>2. os \in Seq(Outcomes(X)) /\ x \in BOOLEAN
    BY DEF Faithful
  <1>3. ToOutput(r) = out \o tail
    BY DEF ToOutput, Blocks, Block
  <1> HIDE DEF X, os, x
  <1>4. /\ out \in Seq(D) /\ LinesOf(out, "command") = Ran(os)
        /\ LinesOf(out, "exit") = Exits(x, os)
    BY <1>1, <1>2, TranscriptLines
  <1>5. p \in D /\ p.kind = "preview"
    BY <1>1 DEF Line, Lines, Kinds
  <1> HIDE DEF out, p
  <1>6. LinesOf(<<p>>, "command") = <<>> /\ LinesOf(<<p>>, "exit") = <<>>
    BY <1>5, LinesOne
  <1>7. tail \in Seq(D) /\ LinesOf(tail, "command") = <<>> /\ LinesOf(tail, "exit") = <<>>
    <2> HIDE DEF D
    <2> QED BY <1>2, <1>5, <1>6, LinesEmpty
  <1> HIDE DEF tail
  <1>8. /\ LinesOf(out \o tail, "command") = LinesOf(out, "command") \o LinesOf(tail, "command")
        /\ LinesOf(out \o tail, "exit") = LinesOf(out, "exit") \o LinesOf(tail, "exit")
    <2>1. out \in Seq(Lines(X)) /\ tail \in Seq(Lines(X))
      BY <1>4, <1>7
    <2> HIDE DEF D
    <2> QED BY <2>1, LinesConcat, SMTT(40)
  <1>9. LinesOf(out, "command") \in Seq(D) /\ LinesOf(out, "exit") \in Seq(D)
    BY <1>4, LinesType
  <1> DEFINE a == LinesOf(out, "command")
             b == LinesOf(out, "exit")
  <1> HIDE DEF D, a, b
  <1>10. a \o <<>> = a /\ b \o <<>> = b
    BY <1>9 DEF a, b
  <1>11. out \o tail \in Seq(D)
    BY <1>4, <1>7
  <1> QED BY <1>3, <1>4, <1>7, <1>8, <1>10, <1>11 DEF a, b, D, X, os, x

(* A record of such a report is honest.                                    *)
LEMMA RecordHonest ==
  ASSUME NEW planned, NEW r, Faithful(r, planned), NEW d,
         d.status = DeployStatus(r), d.output = ToOutput(r), d.planned = planned
  PROVE  Honest(d)
  <1> DEFINE os == r.outcomes
             n == Len(os)
             ran == LinesOf(d.output, "command")
             exits == LinesOf(d.output, "exit")
  <1>1. ran = Ran(os) /\ exits = Exits(r.executed, os)
    BY OutputLines
  <1>2. n \in Nat /\ DOMAIN os = 1 .. n
    BY DEF Faithful
  <1>3. \A k \in DOMAIN ran : ran[k].text = Render(d.planned[k])
    <2>1. DOMAIN Ran(os) = DOMAIN os /\ \A k \in DOMAIN os : Ran(os)[k].text = os[k].command
      BY DEF Ran, Line
    <2>2. \A k \in 1 .. n : os[k].command = Render(planned[k])
      BY DEF Faithful
    <2> HIDE DEF os, n, ran
    <2> QED BY <1>1, <1>2, <2>1, <2>2
  <1>4. r.executed \in BOOLEAN /\ r.success \in BOOLEAN
    BY DEF Faithful
  <1>5. CASE r.executed = FALSE
    <2>1. exits = <<>> /\ d.status = "queued"
      BY <1>1, <1>5 DEF Exits, DeployStatus
    <2> HIDE DEF ran, exits
    <2>2. /\ d.status = "queued" <=> exits = <<>>
          /\ d.status # "succeeded" /\ d.status # "failed"
      BY <2>1
    <2> QED BY <1>3, <2>2 DEF Honest, ran, exits
  <1>6. CASE r.executed = TRUE
    <2>1. exits = [i \in 1 .. n |-> Line("exit", <<os[i].exit_code>>)]
      BY <1>1, <1>2, <1>6 DEF Exits
    <2>2. /\ n >= 1
          /\ r.success = TRUE => n = Len(planned) /\ \A i \in 1 .. n : os[i].exit_code = 0
          /\ r.success = FALSE => os[n].exit_code = 1
      BY <1>6 DEF Faithful
    <2>3. d.status = IF r.success THEN "succeeded" ELSE "failed"
      BY <1>6 DEF DeployStatus
    <2> HIDE DEF os, n, ran, exits
    <2>4. /\ Len(exits) = n /\ DOMAIN exits = 1 .. n
          /\ \A i \in 1 .. n : exits[i].text = <<os[i].exit_code>>
      BY <1>2, <2>1 DEF Line
    <2>5. exits # <<>>
      BY <1>2, <2>2, <2>4
    <2>6. r.success = FALSE => Last(exits).text # << 0 >>
      <3>1. n \in 1 .. n
        BY <1>2, <2>2
      <3>2. r.success = FALSE => exits[n].text = << 1 >>
        BY <2>2, <2>4, <3>1
      <3>3. << 1 >> # << 0 >>
        OBVIOUS
      <3> QED BY <2>4, <3>2, <3>3 DEF Last
    <2>7. r.success = TRUE =>
             Len(exits) = Len(d.planned) /\ \A k \in DOMAIN exits : exits[k].text = << 0 >>
      BY <2>2, <2>4
    <2>8. /\ d.status = "queued" <=> exits = <<>>
          /\ d.status = "succeeded" =>
                Len(exits) = Len(d.planned) /\ \A k \in DOMAIN exits : exits[k].text = << 0 >>
          /\ d.status = "failed" => Last(exits).text # << 0 >>
      BY <1>4, <2>3, <2>5, <2>6, <2>7
    <2> QED BY <1>3, <2>8 DEF Honest, ran, exits
  <1> QED BY <1>4, <1>5, <1>6

-----------------------------------------------------------------------------
(* Every deployment.                                                       *)

(* The records, with their planned commands.                               *)
Records == [service: Services, status: {"queued", "succeeded", "failed"},
            output: Seq(Lines(LineTexts)), planned: Commands]

(* The settings and the commands are made of symbols, a request that is    *)
(* past its validation has a valid name, the result at hand is one of the  *)
(* commands at hand, and every record is honest.                           *)
Planning ==
    /\ config.root \in Seq(Symbols) /\ config.context \in Seq(Symbols)
    /\ service \in Services /\ commands \in Commands
    /\ pc = "run" => ValidateServiceName(service.name)
    /\ pc = "record" => Faithful(run, commands)
    /\ deployments \in Seq(Records) /\ StatusHonest

LEMMA SymbolTypes ==
  /\ Signs \subseteq AllSymbols /\ CommandWords \subseteq AllSymbols
  /\ NameWords \subseteq AllSymbols
  /\ "/" \in AllSymbols /\ Seq(Symbols) \subseteq Seq(AllSymbols)
  /\ <<"missing-image">> \in Seq(AllSymbols)
  <1>1. /\ Signs \subseteq AllSymbols /\ CommandWords \subseteq AllSymbols
        /\ NameWords \subseteq AllSymbols /\ Symbols \subseteq AllSymbols
    BY DEF AllSymbols
  <1>2. "/" \in AllSymbols /\ "missing-image" \in AllSymbols
    BY <1>1 DEF NameWords
  <1>3. Seq(Symbols) \subseteq Seq(AllSymbols)
    BY <1>1
  <1> QED BY <1>1, <1>2, <1>3

(* What is planned for a service is made of complete tokens.               *)
LEMMA PlannedCommands ==
  ASSUME Planning, NEW s \in Services
  PROVE  Planned(s) \in Commands /\ <<RestartCommand(s.name)>> \in Commands
  <1> DEFINE S == AllSymbols
             image == IF s.image = NoImage THEN <<"missing-image">> ELSE s.image
  <1>1. /\ s.name \in Seq(Symbols) /\ s.kind \in {"docker_image", "docker_compose", "dockerfile"}
        /\ s.image \in {NoImage} \cup Seq(Symbols)
    BY DeploymentsAssumption
  <1>2. /\ s.name \in Seq(S) /\ config.root \in Seq(S) /\ config.context \in Seq(S)
        /\ image \in Seq(S)
    BY <1>1, SymbolTypes DEF Planning
  <1>3. /\ ImageDeployCommands(image, s.name) \in Commands
        /\ ComposeDeployCommands(s.name, config) \in Commands
        /\ DockerfileDeployCommands(s.name, config) \in Commands
        /\ RestartCommand(s.name) \in Seq(Complete(S))
    <2> DEFINE name == s.name
    <2> HIDE DEF S, image, name
    <2>1. CommandWords \subseteq S /\ NameWords \subseteq S
      BY SymbolTypes DEF S
    <2>2. name \in Seq(S)
      BY <1>2 DEF name
    <2>3. /\ ImageDeployCommands(image, name) \in Seq(Seq(Complete(S)))
          /\ ComposeDeployCommands(name, config) \in Seq(Seq(Complete(S)))
          /\ DockerfileDeployCommands(name, config) \in Seq(Seq(Complete(S)))
          /\ RestartCommand(name) \in Seq(Complete(S))
      BY <1>2, <2>1, <2>2, BuildersComplete
    <2> QED BY <2>3 DEF Commands, S, name
  <1>4. Planned(s) \in Commands
    BY <1>1, <1>3 DEF Planned
  <1>5. <<RestartCommand(s.name)>> \in Commands
    <2> DEFINE T == Seq(Complete(S))
               c == RestartCommand(s.name)
    <2>1. c \in T
      BY <1>3
    <2> HIDE DEF T, c
    <2>2. <<c>> \in Seq(T)
      BY <2>1
    <2> QED BY <2>2 DEF T, c, Commands
  <1> QED BY <1>4, <1>5

LEMMA NoCommands == <<>> \in Commands
  <1> DEFINE T == Seq(Complete(AllSymbols))
  <1> HIDE DEF T
  <1>1. <<>> \in Seq(T)
    OBVIOUS
  <1> QED BY <1>1 DEF Commands, T

LEMMA CommandTexts ==
  ASSUME NEW planned \in Commands
  PROVE  /\ Len(planned) \in Nat /\ DOMAIN planned = 1 .. Len(planned)
         /\ \A i \in 1 .. Len(planned) :
               /\ planned[i] \in Seq(Complete(AllSymbols)) /\ Render(planned[i]) \in LineTexts
  <1> DEFINE T == Seq(Complete(AllSymbols))
  <1> HIDE DEF T
  <1>1. planned \in Seq(T)
    BY DEF Commands, T
  <1>2. /\ Len(planned) \in Nat /\ DOMAIN planned = 1 .. Len(planned)
        /\ \A i \in 1 .. Len(planned) : planned[i] \in T
    BY <1>1
  <1>3. \A c \in T : Render(c) \in LineTexts
    BY SymbolTypes, RenderType DEF T, LineTexts
  <1> QED BY <1>2, <1>3 DEF T

(* Both executors report faithfully.                                       *)
LEMMA PreviewFaithful ==
  ASSUME Planning, PreviewRun
  PROVE  Faithful(run', commands)
  <1> DEFINE O == Outcomes(LineTexts)
             n == Len(commands)
             Outcome(i) == [command |-> Render(commands[i]), exit_code |-> 0, printed |-> FALSE]
             os == [i \in 1 .. n |-> Outcome(i)]
  <1>1. /\ n \in Nat /\ DOMAIN commands = 1 .. n
        /\ \A i \in 1 .. n : Render(commands[i]) \in LineTexts
    BY CommandTexts DEF Planning
  <1>2. run' = [executed |-> FALSE, success |-> TRUE, outcomes |-> os]
    BY <1>1 DEF PreviewRun
  <1>3. \A i \in 1 .. n : Outcome(i) \in O
    BY <1>1 DEF Outcomes
  <1> HIDE DEF n, O
  <1>4. os \in [1 .. n -> O] /\ \A i \in 1 .. n : os[i].command = Render(commands[i])
    BY <1>3
  <1> HIDE DEF os
  <1>5. os \in Seq(O) /\ Len(os) = n
    BY <1>1, <1>4, FunctionIsSeq
  <1>6. run'.executed = FALSE /\ run'.success = TRUE /\ run'.outcomes = os
    BY <1>2
  <1>7. run'.executed \in BOOLEAN /\ run'.success \in BOOLEAN /\ run'.executed # TRUE
    BY <1>6
  <1>8. /\ run'.outcomes \in Seq(Outcomes(LineTexts)) /\ Len(run'.outcomes) <= Len(commands)
        /\ \A i \in 1 .. Len(run'.outcomes) : run'.outcomes[i].command = Render(commands[i])
    BY <1>1, <1>4, <1>5, <1>6 DEF O, n
  <1> QED BY <1>7, <1>8 DEF Faithful

LEMMA RemoteFaithful ==
  ASSUME Planning, RemoteRun
  PROVE  Faithful(run', commands)
  <1> DEFINE O == Outcomes(LineTexts)
  <1>1. PICK n \in 1 .. Len(commands), code \in {0, 1} :
          /\ code = 0 => n = Len(commands)
          /\ run' = [executed |-> TRUE, success |-> code = 0,
                     outcomes |-> [i \in 1 .. n |->
                        [command |-> Render(commands[i]),
                         exit_code |-> IF i = n THEN code ELSE 0, printed |-> i = n]]]
    BY DEF RemoteRun
  <1> DEFINE Outcome(i) == [command |-> Render(commands[i]),
                            exit_code |-> IF i = n THEN code ELSE 0, printed |-> i = n]
             os == [i \in 1 .. n |-> Outcome(i)]
  <1>2. /\ Len(commands) \in Nat /\ n \in Nat /\ n >= 1 /\ n <= Len(commands)
        /\ \A i \in 1 .. n : Render(commands[i]) \in LineTexts
    BY CommandTexts DEF Planning
  <1>3. \A i \in 1 .. n : Outcome(i) \in O
    BY <1>2 DEF Outcomes
  <1>4. run'.executed = TRUE /\ run'.success = (code = 0) /\ run'.outcomes = os
    BY <1>1
  <1> HIDE DEF O
  <1>5. /\ os \in [1 .. n -> O] /\ \A i \in 1 .. n : os[i].command = Render(commands[i])
        /\ \A i \in 1 .. n : os[i].exit_code = IF i = n THEN code ELSE 0
    BY <1>3
  <1> HIDE DEF os
  <1>6. os \in Seq(O) /\ Len(os) = n
    BY <1>2, <1>5, FunctionIsSeq
  <1>7. n \in 1 .. n
    BY <1>2
  <1>8. os[n].exit_code = code /\ (code = 0 => \A i \in 1 .. n : os[i].exit_code = 0)
    BY <1>5, <1>7
  <1>9. /\ run'.success \in BOOLEAN /\ run'.executed \in BOOLEAN
        /\ run'.success = TRUE => code = 0
        /\ run'.success = FALSE => code = 1
    BY <1>4
  <1> QED BY <1>1, <1>2, <1>4, <1>5, <1>6, <1>8, <1>9 DEF Faithful, O

LEMMA PlanningStep ==
  ASSUME Planning, [Next]_vars
  PROVE  Planning'
  <1>1. ASSUME NEW response, Respond(response), UNCHANGED <<config, deployments>>
        PROVE  Planning'
    <2>1. AnyService \in Services
      BY DeploymentsAssumption DEF AnyService
    <2> QED BY <1>1, <2>1, NoCommands DEF Planning, Respond, StatusHonest
  <1>2. ASSUME NEW s \in Services, TriggerDeploy(s)
        PROVE  Planning'
    BY <1>2, PlannedCommands DEF TriggerDeploy, Deployable, Planning, StatusHonest
  <1>3. ASSUME NEW s \in Services, RestartService(s)
        PROVE  Planning'
    BY <1>3, PlannedCommands DEF RestartService, Planning, StatusHonest
  <1>4. ASSUME NEW s \in Services, RefuseDeploy(s)
        PROVE  Planning'
    BY <1>1, <1>4 DEF RefuseDeploy
  <1>5. CASE TurnAway
    BY <1>1, <1>5 DEF TurnAway
  <1>6. CASE PreviewRun
    <2>1. Faithful(run', commands)
      BY <1>6, PreviewFaithful
    <2> QED BY <1>6, <2>1 DEF PreviewRun, Planning, StatusHonest
  <1>7. CASE RemoteRun
    <2>1. Faithful(run', commands)
      BY <1>7, RemoteFaithful
    <2> QED BY <1>7, <2>1 DEF RemoteRun, Planning, StatusHonest
  <1>8. CASE Record
    <2> DEFINE d == [service |-> service, status |-> DeployStatus(run), output |-> ToOutput(run),
                     planned |-> commands]
    <2>1. Faithful(run, commands)
      BY <1>8 DEF Record, Planning
    <2>2. d \in Records
      <3>1. ToOutput(run) \in Seq(Lines(LineTexts))
        BY <2>1, OutputLines
      <3>2. DeployStatus(run) \in {"queued", "succeeded", "failed"}
        BY DEF DeployStatus
      <3> QED BY <3>1, <3>2 DEF Planning, Records
    <2>3. Honest(d)
      <3>1. d.status = DeployStatus(run) /\ d.output = ToOutput(run) /\ d.planned = commands
        OBVIOUS
      <3> HIDE DEF d
      <3> QED BY <2>1, <3>1, RecordHonest
    <2>4. deployments' = Append(deployments, d)
      BY <1>8 DEF Record
    <2> HIDE DEF d
    <2>5. /\ deployments' \in Seq(Records) /\ DOMAIN deployments' = 1 .. (Len(deployments) + 1)
          /\ deployments'[Len(deployments) + 1] = d
          /\ \A i \in 1 .. Len(deployments) : deployments'[i] = deployments[i]
          /\ Len(deployments) \in Nat /\ DOMAIN deployments = 1 .. Len(deployments)
      <3> DEFINE R == Records
      <3> HIDE DEF R
      <3>1. deployments \in Seq(R) /\ d \in R
        BY <2>2 DEF Planning, R
      <3>2. /\ Append(deployments, d) \in Seq(R)
            /\ Len(Append(deployments, d)) = Len(deployments) + 1
            /\ Append(deployments, d)[Len(deployments) + 1] = d
            /\ \A i \in 1 .. Len(deployments) : Append(deployments, d)[i] = deployments[i]
            /\ Len(deployments) \in Nat /\ DOMAIN deployments = 1 .. Len(deployments)
        BY <3>1, AppendProperties
      <3>3. DOMAIN Append(deployments, d) = 1 .. (Len(deployments) + 1)
        BY <3>1
      <3> QED BY <2>4, <3>2, <3>3 DEF R
    <2>6. \A i \in DOMAIN deployments' : Honest(deployments'[i])
      <3>1. \A i \in 1 .. Len(deployments) : Honest(deployments[i])
        BY <2>5 DEF Planning, StatusHonest
      <3>2. \A i \in 1 .. (Len(deployments) + 1) :
               i = Len(deployments) + 1 \/ i \in 1 .. Len(deployments)
        BY <2>5
      <3> QED BY <2>3, <2>5, <3>1, <3>2
    <2>7. AnyService \in Services
      BY DeploymentsAssumption DEF AnyService
    <2> QED BY <1>8, <2>5, <2>6, <2>7, NoCommands DEF Record, Respond, Planning, StatusHonest
  <1>9. CASE Fail
    BY <1>1, <1>9 DEF Fail
  <1>10. CASE UNCHANGED vars
    BY <1>10 DEF vars, Planning, StatusHonest
  <1> QED BY <1>2, <1>3, <1>4, <1>5, <1>6, <1>7, <1>8, <1>9, <1>10 DEF Next

LEMMA PlanningHolds == Spec => []Planning
  <1>1. Init => Planning
    <2> SUFFICES ASSUME Init
                 PROVE  Planning
      OBVIOUS
    <2>1. ASSUME NEW values, NEW default
          PROVE  SettingValues(values, default) \subseteq values \cup {default}
      BY DEF SettingValues, Setting, First
    <2>2. /\ config.root \in SettingValues(Roots, DefaultRoot)
          /\ config.context \in SettingValues(Contexts, DefaultContext)
      BY DEF Init
    <2>3. config.root \in Seq(Symbols) /\ config.context \in Seq(Symbols)
      BY <2>1, <2>2, DeploymentsAssumption
    <2>4. AnyService \in Services
      BY DeploymentsAssumption DEF AnyService
    <2>5. <<>> \in Seq(Records) /\ DOMAIN <<>> = {}
      <3> DEFINE R == Records
      <3> HIDE DEF R
      <3>1. <<>> \in Seq(R) /\ DOMAIN <<>> = {}
        OBVIOUS
      <3> QED BY <3>1 DEF R
    <2> QED BY <2>3, <2>4, <2>5, NoCommands DEF Init, Planning, StatusHonest
  <1>2. Planning /\ [Next]_vars => Planning'
    BY PlanningStep
  <1> QED BY <1>1, <1>2, PTL DEF Spec

(* Whatever the rows and the settings hold, a shell reads every planned    *)
(* command as the words it was built of: no value can end its quotes or    *)
(* add a word of its own (shell_quote, render and the builders of          *)
(* docker.rs).                                                             *)
THEOREM CommandsAlwaysReadBack == Spec => []CommandsReadBack
  <1>1. Planning => CommandsReadBack
    <2> SUFFICES ASSUME Planning, NEW i \in DOMAIN commands
                 PROVE  ShellReads(Render(commands[i])) = Meaning(commands[i])
      BY DEF CommandsReadBack
    <2> DEFINE c == commands[i]
    <2>1. c \in Seq(Complete(AllSymbols))
      BY CommandTexts DEF Planning
    <2> HIDE DEF c
    <2>2. ShellReads(Render(c)) = Meaning(c)
      BY <2>1, SymbolTypes, RenderReadsBack
    <2> QED BY <2>2 DEF c
  <1> QED BY <1>1, PlanningHolds, PTL

(* The directory of every service that is deployed leads to its name       *)
(* directly below the root, and the build context to where its setting     *)
(* leads from there, whatever slashes and dots the settings hold; it lies  *)
(* below the directory if that setting does not climb above its start      *)
(* (service_dir and path_join, after validate_service_name).               *)
THEOREM PathsAlwaysUnderRoot == Spec => []PathsUnderRoot
  <1>1. Planning => PathsUnderRoot
    <2> SUFFICES ASSUME Planning, pc = "run"
                 PROVE  PathsUnderRoot
      BY DEF PathsUnderRoot
    <2> DEFINE root == config.root
               context == config.context
               name == service.name
               top == IF root = <<>> THEN <<"/">> ELSE root
               dir == ServiceDir(root, name)
               inner == Walk(Here, Components(context))
    <2>1. root \in Seq(AllSymbols) /\ context \in Seq(AllSymbols) /\ name \in Seq(AllSymbols)
      BY DeploymentsAssumption, SymbolTypes DEF Planning
    <2>2. ValidateServiceName(name)
      BY DEF Planning
    <2> HIDE DEF root, context, name
    <2> DEFINE path == PathJoin(dir, context)
    <2>3. /\ Locate(dir) = Below(Locate(top), <<name>>)
          /\ Locate(path) = Walk(Locate(dir), Components(context))
          /\ inner.up = 0 => Locate(path) = Below(Locate(dir), inner.names)
      <3>1. top = (IF root = <<>> THEN <<"/">> ELSE root) /\ dir = ServiceDir(root, name)
            /\ inner = Walk(Here, Components(context)) /\ "/" \in AllSymbols
        BY SymbolTypes
      <3> HIDE DEF top, dir, inner
      <3> QED BY <2>1, <2>2, <3>1, PathPlaces
    <2> QED BY <2>3 DEF PathsUnderRoot, root, context, name
  <1> QED BY <1>1, PlanningHolds, PTL

(* In every record, after any number of deployments, the transcript holds  *)
(* the planned commands from the first on, in order, and the status        *)
(* says what their exit codes say: queued that nothing ran, succeeded that *)
(* all ran and none failed, failed that the last one did (run_and_record,  *)
(* to_output and deploy_status).                                           *)
THEOREM StatusesHonest == Spec => []StatusHonest
  <1>1. Planning => StatusHonest
    BY DEF Planning
  <1> QED BY <1>1, PlanningHolds, PTL

=============================================================================
