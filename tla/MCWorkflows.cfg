SPECIFICATION WorkflowSpec
CONSTANTS
    Key <- MCKey
    Fields <- MCFields
INVARIANTS KeysBalanced ReportHonest
