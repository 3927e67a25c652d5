------------------------------- MODULE QrApi --------------------------------
(***************************************************************************)
(* Rendering on request: GET and POST /v1/qr in their three encodings and  *)
(* the styling of POST /v1/codes (internal/httpapi/v1), and Render's race  *)
(* between its worker, its time budget and the client (internal/qr).       *)
(***************************************************************************)
EXTENDS QrImage

CONSTANTS
    Requests,       \* what clients ask for, before it is encoded
    Versions,       \* the symbol versions the encoder may pick
    Rows,           \* rows of modules
    Bands           \* bound: how often a worker looks at its context

ASSUME BandsAssumption == Bands \in Nat \ {0}

VARIABLE qr         \* the request, its worker, their channel and context

\* A number that was not sent, and one that does not parse.
Absent == -1
Malformed == -2

\* The fields of the request schema; without a logo there are none of its own.
ASSUME RequestsAssumption ==
    Requests \subseteq
      {r \in [format : {"absent", "png", "svg", "bad"}, colour : {"absent", "ok", "low", "bad"},
              shape : {"absent", "square", "dot", "rounded", "bad"}, margin : Int, size : Int,
              level : Levels \cup {Absent, Malformed}, content : Nat,
              image : {"none", "good", "bad", "empty"}, scale : Int,
              raise : {"absent", "yes", "no", "bad"}] :
         r.image = "none" => r.scale = Absent /\ r.raise = "absent"}

\* The versions of the standard, and rows that say of each module what it is.
ASSUME SymbolsAssumption ==
    /\ Versions \subseteq 1..40
    /\ \A row \in Rows : /\ row.n \in Nat
                        /\ row.dark \in [0..(row.n - 1) -> BOOLEAN]
                        /\ row.finder \in [0..(row.n - 1) -> BOOLEAN]

Encodings == {"query", "json", "multipart", "codes"}

Idle == [pc |-> "idle", worker |-> "none"]

NoSymbol == [version |-> 0, scale |-> 0, level |-> 0]

QrInit == qr = Idle

----------------------------------------------------------------------------
(* Parsing *)

Numbers(r) == r.margin # Malformed /\ r.size # Malformed

Num(v, default) == IF v = Absent THEN default ELSE v
Str(v, default) == IF v = "absent" THEN default ELSE v

\* Bug: the margin is left to the renderer, whose range is wider.
BugNoMargin(r) ==
    /\ r.colour # "bad" /\ r.shape # "bad" /\ r.level # Malformed
    /\ Num(r.size, 512) >= 64

\* Fields that toOptions and stylingFromRequest check alike.
Styled(r) ==
    /\ r.colour # "bad" /\ r.shape # "bad" /\ r.level # Malformed
    /\ Num(r.margin, 4) \in 4..64
    /\ Num(r.size, 512) >= 64

toOptions(r) == r.content > 0 /\ r.format # "bad" /\ Styled(r)

validateLogo(r) == Num(r.scale, 15) \in 1..MaxLogoScale

\* The JSON logo: an image is required with it.
decode(r) == HasLogo(r) => r.image # "empty" /\ validateLogo(r)

parseQuery(r) == Numbers(r) /\ toOptions(r)

parseJSON(r) == /\ Numbers(r) /\ r.scale # Malformed /\ r.raise # "bad"
                /\ toOptions(r) /\ decode(r)

parseMultipart(r) ==
    /\ Numbers(r) /\ toOptions(r)
    /\ HasLogo(r) => r.scale # Malformed /\ r.raise # "bad" /\ validateLogo(r)

\* POST /v1/codes: the size is capped by the schema, the content and the
\* format are the service's.
stylingFromRequest(r) ==
    /\ Numbers(r) /\ r.scale # Malformed /\ r.raise # "bad"
    /\ decode(r) /\ Styled(r)
    /\ Num(r.size, 512) <= 4096

Parsed(enc, r) ==
    CASE enc = "query" -> parseQuery(r)
      [] enc = "json" -> parseJSON(r)
      [] enc = "multipart" -> parseMultipart(r)
      [] enc = "codes" -> stylingFromRequest(r)

\* What the renderer is handed, with the defaults of either path.
Options(r) ==
    [format |-> Str(r.format, "png"), colour |-> Str(r.colour, "ok"),
     shape |-> Str(r.shape, "square"), margin |-> Num(r.margin, 4), size |-> Num(r.size, 512),
     level |-> Num(r.level, 1), content |-> r.content, image |-> r.image,
     scale |-> Num(r.scale, 15), raise |-> r.raise # "no"]

\* A query has no logo; a code has neither a format nor content of its own.
Expressible(enc, r) ==
    /\ enc = "query" => ~HasLogo(r)
    /\ enc = "codes" => r.format = "absent" /\ r.content = 20

Receive(enc, r) ==
    /\ Expressible(enc, r)
    /\ qr' = [pc |-> IF Parsed(enc, r) THEN "select" ELSE "answered",
              answer |-> IF Parsed(enc, r) THEN "none" ELSE "invalid_request",
              enc |-> enc, req |-> r, opts |-> IF Parsed(enc, r) THEN Options(r) ELSE r,
              worker |-> IF Parsed(enc, r) THEN "prepare" ELSE "ended",
              done |-> "empty", ctx |-> "live", why |-> "live", bands |-> Bands,
              symbol |-> NoSymbol]

----------------------------------------------------------------------------
(* Render *)

CtxError(ctx) == IF ctx = "deadline" THEN "render_timeout" ELSE "canceled"

Work(to) == qr' = [qr EXCEPT !.worker = "send", !.done = to, !.symbol = NoSymbol, !.bands = 0]

\* The worker's Prepare; a context that ended stops it before the encoder.
WorkerPrepare ==
    /\ qr.worker = "prepare"
    /\ LET verdict == Prepare(qr.opts)
       IN  \/ verdict # "ok" /\ Work(verdict)
           \/ verdict = "ok" /\ qr.ctx # "live" /\ Work(CtxError(qr.ctx))
           \/ /\ verdict = "ok" /\ qr.ctx = "live"
              /\ \E v \in Versions :
                   qr' = [qr EXCEPT !.worker = "draw",
                            !.symbol = [version |-> v, level |-> Effective(qr.opts),
                                        scale |-> IF HasLogo(qr.opts) THEN qr.opts.scale ELSE 0]]

\* It looks at the context between bands of rows.
WorkerDraw ==
    /\ qr.worker = "draw"
    /\ \/ qr.ctx # "live" /\ Work(CtxError(qr.ctx))
       \/ qr.ctx = "live" /\ qr.bands = 0 /\ Work("image")
       \/ qr.ctx = "live" /\ qr.bands > 0 /\ qr' = [qr EXCEPT !.bands = @ - 1]

\* Bug: the channel has no buffer, so the send waits for its receiver.
BugUnbuffered ==
    /\ qr.worker = "send" /\ qr.pc = "select"
    /\ qr' = [qr EXCEPT !.worker = "ended", !.pc = "answered", !.answer = qr.done]

WorkerSend ==
    /\ qr.worker = "send"
    /\ qr' = [qr EXCEPT !.worker = "ended"]

\* Returning cancels the context the worker looks at.
Return(answer) ==
    qr' = [qr EXCEPT !.pc = "answered", !.answer = answer, !.why = qr.ctx,
             !.ctx = IF @ = "live" THEN "canceled" ELSE @]

\* When both are ready the select takes either.
Select ==
    /\ qr.pc = "select"
    /\ \/ qr.worker = "ended" /\ Return(qr.done)
       \/ qr.ctx # "live" /\ Return(CtxError(qr.ctx))

Deadline == qr.pc = "select" /\ qr.ctx = "live" /\ qr' = [qr EXCEPT !.ctx = "deadline"]

ClientLeaves == qr.pc = "select" /\ qr.ctx = "live" /\ qr' = [qr EXCEPT !.ctx = "canceled"]

\* The next request is another goroutine's, with its own channel.
Finish == qr.pc = "answered" /\ qr.worker = "ended" /\ qr' = Idle

Worker == WorkerPrepare \/ WorkerDraw \/ WorkerSend

QrNext ==
    \/ qr.pc = "idle" /\ \E enc \in Encodings, r \in Requests : Receive(enc, r)
    \/ Worker \/ Select \/ Deadline \/ ClientLeaves \/ Finish

----------------------------------------------------------------------------
(* The schema, as openapi.yaml states it: what any encoding must accept. *)

Acceptable(enc, r) ==
    LET level == Num(r.level, 1)
        raised == {l \in level..3 : Num(r.scale, 15) <= logoBudget(l)}
        allowed == IF r.image = "none" THEN {level}
                   ELSE IF r.raise = "no" THEN raised \cap {level} ELSE raised
    IN  /\ r.format \in {"absent", "png", "svg"}
        /\ r.colour \in {"absent", "ok"}
        /\ r.shape \in {"absent", "square", "dot", "rounded"}
        /\ r.margin \in {Absent} \cup 4..64
        /\ Num(r.size, 512) \in 64..(IF enc = "codes" THEN Min({4096, MaxPx}) ELSE MaxPx)
        /\ level \in Levels
        /\ r.image \in {"none", "good"} /\ r.raise # "bad"
        /\ r.scale \in {Absent} \cup 1..MaxLogoScale
        /\ allowed # {} /\ r.content \in 1..payloadLimit(Min(allowed))

(***************************************************************************)
(* A request gets an image exactly when the schema and the policy accept   *)
(* it, in whatever encoding it came and on either endpoint (qr.go:430,     *)
(* "accepted or rejected identically on each"); only the budget or the     *)
(* client cut it short, and each is told for what it is.                   *)
(***************************************************************************)
AnswersFollowSchema ==
    qr.pc = "answered" =>
        \/ qr.answer = "render_timeout" /\ qr.why = "deadline"
        \/ qr.answer = "canceled" /\ qr.why = "canceled"
        \/ /\ qr.answer \notin {"render_timeout", "canceled"}
           /\ (qr.answer = "image") <=> Acceptable(qr.enc, qr.req)

\* A drawn row is right: each dark module lies in exactly one shape, no light one does,
\* and only square runs cross the border of a finder pattern.
DrawnOnce(row, shape) ==
    LET drawn == computeGeometry(row, shape)
    IN  /\ \A x \in 0..(row.n - 1) :
             Cardinality({s \in drawn : x \in s[1]..s[2]}) = IF row.dark[x] THEN 1 ELSE 0
        /\ \A s \in drawn : shape # "square" =>
             \A x \in s[1]..s[2] : row.finder[x] = row.finder[s[1]]

DrawnRight == {shape \in {"square", "dot", "rounded"} : \A row \in Rows : DrawnOnce(row, shape)}

(***************************************************************************)
(* The symbol that is drawn can be read: a logo hides no more of the       *)
(* codewords than the level in use recovers, is centred and leaves the     *)
(* finders and their separators alone; every module is drawn once and      *)
(* lands inside the picture (an edge outside would be an index out of      *)
(* range in fillRect).                                                     *)
(***************************************************************************)
SymbolReadable ==
    qr.worker = "draw" =>
        LET v == qr.symbol.version
            n == Side(v)
            hole == logoHole(v, qr.symbol.scale)
            total == n + 2 * qr.opts.margin
        IN  /\ qr.symbol.scale > 0 =>
                 /\ hole % 2 = 1 /\ hole >= 3 /\ (n - hole) \div 2 >= 8
                 /\ 100 * hole * hole <= logoBudget(qr.symbol.level) * rawDataModules(v)
            /\ qr.symbol.level >= qr.opts.level
            /\ edge(qr.opts.size, total, 0) >= 0
            /\ edge(qr.opts.size, total, total) <= qr.opts.size
            /\ qr.opts.shape \in DrawnRight

\* A request is answered and its worker ends, whichever of them is first and
\* whether or not anyone still listens (render.go:238, "exits shortly after").
RendersEnd == []<>(qr.pc # "select") /\ []<>(qr.worker \in {"none", "ended"})
=============================================================================
