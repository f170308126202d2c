\* One to three inputs, up to 3 entries each, 2 sections, 2 labels.
SPECIFICATION FairSpec
CONSTANTS
    A = A
    B = B
    Text = Text
    Data = Data
    LinkModule = LinkModule
    InputSpace <- MCInputSpace
    Modules <- MCModules
    Sections <- MCSections
    Symbols <- MCSymbols
INVARIANTS
    Placement
    ReferencesLand
PROPERTY LinkImplementsSpec
