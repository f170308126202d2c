\* Five types with expressions of up to three names, in two orders; four
\* constants in two files.
SPECIFICATION DeclSpec
CONSTANTS
    Imported = Imported
    Importing = Importing
    NoModule = NoModule
    Names <- MCNames
    ConstNames <- MCConstNames
    Programs <- MCTypePrograms
    ConstPrograms <- MCConstPrograms
    Declarations <- MCDeclarations
INVARIANTS
    PathIsActive
    ReportsAreCircles
    TypesAsMeant
    ConstantsAsMeant
    BlameIsHome
PROPERTY Terminates
