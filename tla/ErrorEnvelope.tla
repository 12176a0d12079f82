--------------------------- MODULE ErrorEnvelope ---------------------------
(***************************************************************************)
(* How errors are answered (backend/src/errors/api.rs): ApiError becomes   *)
(* an ErrorResponse, and the middleware normalize_error_response gives     *)
(* every other error response below /api/v1 the same form.                 *)
(*                                                                         *)
(* A text is a sequence, of which only the length and what it echoes count.*)
(***************************************************************************)
EXTENDS Naturals, Sequences

CONSTANT BodyLimit    \* 64 KiB in the code

NoText == <<>>

(* ApiError: its variant and the text in it.                               *)
Unauthorized == [kind |-> "unauthorized", text |-> <<"authentication required">>]
Forbidden == [kind |-> "forbidden", text |-> <<"forbidden">>]
NotFound == [kind |-> "not_found", text |-> <<"not found">>]
BadRequest(text) == [kind |-> "bad_request", text |-> text]
Internal(text) == [kind |-> "internal_error", text |-> text]

Status(error) ==
    CASE error.kind = "unauthorized" -> 401
      [] error.kind = "forbidden" -> 403
      [] error.kind = "not_found" -> 404
      [] error.kind = "bad_request" -> 400
      [] error.kind = "internal_error" -> 500

(* Variant: the text of an internal error is sent as well.                 *)
PublicMessageAlways(error) == error.text

PublicMessage(error) ==
    IF error.kind = "internal_error" THEN <<"internal server error">> ELSE error.text

(* A response: its status and, for an error, an ErrorResponse or a text.   *)
Ok == [status |-> 200, envelope |-> FALSE, code |-> "none", message |-> NoText, details |-> NoText]

PlainError(status, text) ==
    [status |-> status, envelope |-> FALSE, code |-> "none", message |-> text, details |-> NoText]

IntoResponse(error) ==
    [status |-> Status(error), envelope |-> TRUE, code |-> error.kind,
     message |-> PublicMessage(error), details |-> NoText]

FromStatus(status, details) ==
    [status |-> status, envelope |-> TRUE,
     code |-> CASE status \in {400, 422} -> "bad_request"
                [] status = 401 -> "unauthorized"
                [] status = 403 -> "forbidden"
                [] status = 404 -> "not_found"
                [] status = 405 -> "method_not_allowed"
                [] status >= 500 -> "internal_error"
                [] OTHER -> "request_error",
     message |-> <<"by status">>,
     details |-> IF status >= 500 THEN NoText ELSE details]

(* Variant: a body beyond the limit keeps the status of the handler.       *)
NormalizeErrorResponseLarge(response) ==
    IF response.status < 400 THEN response
    ELSE IF Len(response.message) > BodyLimit
    THEN [IntoResponse(Internal(<<"failed to serialize">>)) EXCEPT !.status = response.status]
    ELSE IF response.envelope THEN response
    ELSE FromStatus(response.status, response.message)

(* A body beyond the limit is not read: the answer is an internal error.   *)
NormalizeErrorResponse(response) ==
    IF response.status < 400 THEN response
    ELSE IF Len(response.message) > BodyLimit
    THEN IntoResponse(Internal(<<"failed to serialize">>))
    ELSE IF response.envelope THEN response
    ELSE FromStatus(response.status, response.message)

=============================================================================
