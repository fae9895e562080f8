----------------------------- MODULE OtlpModel ------------------------------
(***************************************************************************)
(* model.rs of tpt-otlp: a typed record becomes an OTLP log record.  An    *)
(* AnyValue has a kind, the text it shows and, for an integer, its number. *)
(* The times, the resource and the version are left out.                   *)
(***************************************************************************)
EXTENDS Record, Integers

CONSTANTS
  I64,             \* 2^63
  NumberOf(_),     \* the number a text parses to, where it does
  IsTrue(_),       \* the texts that make a bool true
  Display(_, _)    \* an address of a type, written out again

ASSUME OtlpAssumption == I64 \in Nat \ {0}

AnyValue(kind, text, n) == [kind |-> kind, text |-> text, n |-> n]

\* u64 as i64: the same bits.
AsI64(n) == IF n < I64 THEN n ELSE n - 2 * I64

\* value_to_any
ValueToAny(v) ==
  CASE v.as \in {"int", "timestamp"} -> AnyValue("int", <<>>, NumberOf(v.of))
    [] v.as = "uint" -> AnyValue("int", <<>>, AsI64(NumberOf(v.of)))
    [] v.as = "enum" -> AnyValue("int", <<>>, v.code)
    [] v.as = "float" -> AnyValue("double", v.of, 0)
    [] v.as = "bool" -> AnyValue("bool", <<>>, IF IsTrue(v.of) THEN 1 ELSE 0)
    [] v.as \in {"ip", "ipv4", "ipv6", "mac"} ->
         AnyValue("string", Display(v.as, v.of), 0)
    [] OTHER -> AnyValue("string", v.of, 0)

MessageField == <<"message">>
SeverityField == <<"severity">>

\* fields.iter().find(): none or the first.
Found(fields, name) ==
  {i \in DOMAIN fields : fields[i].name = name /\ IsFirst(fields, i)}

\* A syslog severity as an enum code or as a number; notice is told apart from
\* info only in an enum.
SeverityNumber(v) ==
  CASE v.as = "enum" ->
         IF v.code <= 3 THEN 17 ELSE IF v.code = 4 THEN 13
         ELSE IF v.code = 5 THEN 11 ELSE IF v.code = 6 THEN 9 ELSE 7
    [] v.as = "int" ->
         LET n == NumberOf(v.of) IN
         IF n \in 0 .. 3 THEN 17 ELSE IF n = 4 THEN 13
         ELSE IF n \in {5, 6} THEN 9 ELSE 7
    [] OTHER -> 9

\* record_to_log_record
LogRecord(rec) ==
  LET message == Found(rec.fields, MessageField)
      severity == Found(rec.fields, SeverityField) IN
  [body |-> IF message = {} THEN AnyValue("string", <<rec.format>>, 0)
            ELSE ValueToAny(rec.fields[Least(message)].value),
   severity |-> IF severity = {} THEN 9
                ELSE SeverityNumber(rec.fields[Least(severity)].value),
   attributes |-> [i \in DOMAIN rec.fields |->
                     [key |-> rec.fields[i].name,
                      value |-> ValueToAny(rec.fields[i].value)]]]

\* records_to_payload: a payload of no records has no resource either.
RecordsToPayload(records, scopeName) ==
  IF records = <<>> THEN <<>>
  ELSE <<[scope |-> scopeName,
          logs |-> [i \in DOMAIN records |-> LogRecord(records[i])]]>>
=============================================================================
