----------------------------- MODULE ProgramError -----------------------------
(***************************************************************************)
(* program-error.ts: the name behind the code of a failed transaction.     *)
(* The texts that the code takes apart with regular expressions are        *)
(* records of what it finds in them: `custom' tells a status message with  *)
(* an instruction and a code, `anchor' a log line with an error's code and *)
(* name.                                                                   *)
(***************************************************************************)
EXTENDS Integers, SequencesExt

CONSTANTS
    Program,       \* keys
    FrameworkCode, \* 2012
    FrameworkName  \* ConstraintAddress

LogLine == [anchor : BOOLEAN, code : Nat, name : {"logged"}]

\* `raisedBy' is the program that the code comes from: the failing one, or one
\* that it calls.
FailedTransaction ==
    [failed : BOOLEAN, custom : BOOLEAN, instruction : Nat, code : Nat,
     account_keys : Seq(Program), instructions : Seq(Nat), logs : Seq(LogLine),
     raisedBy : Program]

Nothing == [code |-> -1, name |-> "null"]
Named(code, name) == [code |-> code, name |-> name]

\* programErrorTable(): of two entries with one code the later counts.
programErrorTable(errors, decodesWithLogs) ==
    [errors |-> [code \in {errors[i].code : i \in DOMAIN errors} |->
                    errors[Max({i \in DOMAIN errors : errors[i].code = code})].name],
     decodesWithLogs |-> decodesWithLogs]

\* The first line that names this code
loggedSatelliteError(logs, expectedCode) ==
    LET naming == {i \in DOMAIN logs : logs[i].anchor /\ logs[i].code = expectedCode}
    IN  IF naming = {} THEN Nothing ELSE Named(expectedCode, logs[Min(naming)].name)

\* Mutant of TableApplies: the logs are not asked.
TableAlwaysApplies(logs, table) == TRUE

\* With logs the code may be an inner program's.
TableApplies(logs, table) == logs = <<>> \/ table.decodesWithLogs

\* The log, the framework's own error, the table, in this order.
NameOf(code, logs, table) ==
    LET logged == loggedSatelliteError(logs, code)
    IN  IF logged # Nothing THEN logged
        ELSE IF code = FrameworkCode THEN Named(code, FrameworkName)
        ELSE IF TableApplies(logs, table) /\ code \in DOMAIN table.errors
          THEN Named(code, table.errors[code])
        ELSE Nothing

\* Instructions are numbered from zero, and so are keys.
decodeProgramError(tx, tables) ==
    LET known == tx.instruction + 1 \in DOMAIN tx.instructions
        index == tx.instructions[tx.instruction + 1] + 1
    IN  IF ~(tx.failed /\ tx.custom /\ known) THEN Nothing
        ELSE IF index \notin DOMAIN tx.account_keys THEN Nothing
        ELSE IF tx.account_keys[index] \notin DOMAIN tables THEN Nothing
        ELSE NameOf(tx.code, tx.logs, tables[tx.account_keys[index]])

=============================================================================
