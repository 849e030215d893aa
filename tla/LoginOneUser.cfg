SPECIFICATION Spec
CONSTANTS
    Browser = {b1}
    Tab = {t1, t2}
    NoWks = NoWks
INVARIANTS
    OneUserPerWorkstation
