SPECIFICATION Spec
CONSTANTS
    bigToAll = bigToAll
    littleToAll = littleToAll
    other = other
    empty = empty
    layout = layout
    css = css
    FunctionSets = {bigToAll, littleToAll, other, empty}
    entryConfig <- EntryConfigs
    exitConfig <- ExitConfigs
    functions <- FunctionsOf
    NameLen <- Lengths
    PageSize = 54
    None = None
    Arguments <- AddSetArguments
    MaxAdds = 2
    Leftovers <- LeftoverFiles
    Retries = 1
    Pages = 2
    Zero = Zero
INVARIANTS TypeOK InsideTheFile OneSetPerFunction ReadsWhatWasWritten ResultOfPage CompleteLog NeedsDisplay
PROPERTIES LoadsUnderOneRound ConnectionEnds EndsOrWaits
