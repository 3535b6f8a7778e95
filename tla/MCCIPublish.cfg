SPECIFICATION Spec
INVARIANTS TypeOK GateIsProven ExitZeroIsComplete ReportsMatchVerdict
