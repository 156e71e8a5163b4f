SPECIFICATION Spec
CONSTANTS
    Methods <- MCMethods
    Evals <- MCEvals
    Files <- MCFiles
INVARIANTS AcceptsGrammar
PROPERTIES ReadsOn
