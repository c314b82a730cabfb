\* One collector, enough cycles for two to be abandoned while a third is
\* current, and a scrape that reads at any moment.
SPECIFICATION LiveSpec
CONSTANTS
    Collectors = {images}
    Scrapers = {s1}
    MaxGen = 3
INVARIANTS TypeOK NoResultLost ScrapesAreCoherent ScrapesAreACut
PROPERTIES OnlyTheNewestPublishes KeepsThePromise CyclesSettle LoopsAdvance ScrapesReturn
