------------------------------- MODULE LpReply ------------------------------
(***************************************************************************)
(* What lp.rs makes of the text with which a called module replies.  A     *)
(* module's method returns JSON as a string, which the protocol encodes as *)
(* JSON once more; a universal C++ module's reply is an envelope of        *)
(* success, error and value.                                               *)
(*                                                                         *)
(* A text is empty, JSON, or something else; a JSON value is null, a       *)
(* string, or an object, whose content stays abstract.                     *)
(***************************************************************************)
EXTENDS Naturals

Null == [kind |-> "null"]
Str(text) == [kind |-> "string", text |-> text]
Obj(body) == [kind |-> "object", body |-> body]

NoText == [form |-> "empty"]
Noise == [form |-> "noise"]
Json(value) == [form |-> "json", value |-> value]

\* serde_json::from_str
from_str(text) == IF text.form = "json" THEN {text.value} ELSE {}

\* lp.rs parse_ok: what is not JSON is passed on as a string.
parse_ok(raw) ==
    CASE raw.form = "empty" -> Null
      [] raw.form = "json" -> raw.value
      [] OTHER -> Str(raw)

\* A string that is not empty, in which both callers look for JSON.
CarriesText(v) == v.kind = "string" /\ v.text.form # "empty"

\* lp.rs call_module_json, from the raw reply of call_json.
call_module_json(raw) ==
    LET v == parse_ok(raw)
    IN CASE CarriesText(v) -> from_str(v.text)
         [] v.kind = "string" /\ ~ CarriesText(v) -> {}
         [] OTHER -> {v}

\* The StdLogosResult envelope: a success that is not a boolean counts as true, a
\* missing value is null, and a value without an envelope stands for itself.
OpenEnvelope(env) ==
    CASE env.kind # "object" -> {env}
      [] env.kind = "object" /\ "success" \notin DOMAIN env.body -> {env}
      [] OTHER -> IF env.body.success = "false" THEN {}
                  ELSE IF "value" \in DOMAIN env.body THEN {env.body.value} ELSE {Null}

\* Mutant of call_libp2p: the envelope inside of a string is not opened.
LibP2pTrustsStrings(raw) == OpenEnvelope(parse_ok(raw))

\* lp.rs call_libp2p, from the raw reply of call_json.
call_libp2p(raw) ==
    LET v == parse_ok(raw)
    IN UNION {OpenEnvelope(env) : env \in IF CarriesText(v) THEN from_str(v.text) ELSE {v}}

=============================================================================
