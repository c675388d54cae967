CONSTANTS
    Letters <- MCLetters
    Digits <- MCDigits
    Lower <- MCLower
    maxLabelLen = 3
    maxLabelCount = 5
    LabelPack <- MCLabelPack
    LabelAgent <- MCLabelAgent
    LabelManagedBy <- MCLabelManagedBy
    ManagedByValue <- MCManagedByValue
    Agents <- MCAgents
    NameOf <- MCNameOf
    DefaultBindingName = 2
    GCSBuckets <- MCGCSBuckets
    URLs <- MCURLs
    ReservedNames <- MCReservedNames
    DefaultPackInlineLimitBytes = 2
    Inputs <- OrderInputs
    EditedInputs <- MCEditedInputs
    MaxEdits = 0
    Hosts <- MCHosts
    None = None
SPECIFICATION Spec
CHECK_DEADLOCK FALSE
INVARIANTS
    WarnedPrimaryIsUsed
